---- MODULE Spec2Model ----
(***************************************************************************)
(* A model of the pentardp-rs PDU codecs: every message type offers        *)
(* encode (message -> bytes written to a sink), decode (bytes read from a  *)
(* source -> message or error) and size.  A byte is a number in 0..255, a  *)
(* byte string a sequence of bytes.  A u16 is a number in 0..65535.  A u32 *)
(* is kept as its four bytes, most significant first, so that the full     *)
(* 32-bit range is covered.                                                *)
(*                                                                         *)
(* The state machine is a caller of the library: it builds a message with  *)
(* the public constructors (or crafts raw input bytes), encodes it into    *)
(* `wire`, possibly appends further bytes to the source (`excess`), and    *)
(* runs the matching decoder on wire \o excess.                            *)
(***************************************************************************)
EXTENDS Integers, Sequences, FiniteSets, TLC

VARIABLES msg, wire, excess, decoder, result, pc

vars == <<msg, wire, excess, decoder, result, pc>>

(***************************************************************************)
(* Bounds of the model.                                                    *)
(***************************************************************************)
\* number of bytes the caller may append after an encoding
MaxExcess == 2
\* length of the long cookie user name (long enough to wrap the u8 length indicator)
LongNameLen == 230
\* number of events in an input event PDU
MaxEvents == 2
\* number of payload bytes a caller grows a TPKT payload to
MaxPayload == 6

LongPayloadLen == 300
\* number of rectangles in a bitmap update
MaxRectangles == 2

(***************************************************************************)
(* Bytes, integers of fixed width, Option and Result.                      *)
(***************************************************************************)
LE16(v) == <<v % 256, (v \div 256) % 256>>

BE16(v) == <<(v \div 256) % 256, v % 256>>

\* a u32 is <<b3, b2, b1, b0>>, most significant byte first
LE32(u) == <<u[4], u[3], u[2], u[1]>>

U32FromU16(v) == <<0, 0, (v \div 256) % 256, v % 256>>

\* `x as u16` of a u32
U16FromU32(u) == u[3] * 256 + u[4]

ReadLE16(src, at) == src[at + 1] + 256 * src[at + 2]

ReadBE16(src, at) == src[at + 1] * 256 + src[at + 2]

ReadLE32(src, at) == <<src[at + 4], src[at + 3], src[at + 2], src[at + 1]>>

\* bytes at.. at+n-1 (0-based offset `at`) of src
Slice(src, at, n) == SubSeq(src, at + 1, at + n)

Drop(src, n) == SubSeq(src, n + 1, Len(src))

None == [some |-> FALSE]

Some(v) == [some |-> TRUE, v |-> v]

NoValue == [kind |-> "None"]

\* a decoder's outcome: the value or the error, and how many bytes of the
\* source it has consumed
Ok(v, n) == [ok |-> TRUE, err |-> "none", value |-> v, consumed |-> n]

\* an error kind, the values it carries, and the bytes consumed before it
ErrD(e, d, n) == [ok |-> FALSE, err |-> e, detail |-> d, value |-> NoValue, consumed |-> n]

Err(e, n) == ErrD(e, <<>>, n)

NoResult == ErrD("not-run", <<>>, 0)

(***************************************************************************)
(* str::from_utf8: is the byte string well-formed UTF-8.                   *)
(***************************************************************************)
IsCont(b) == b >= 128 /\ b <= 191

\* the number of continuation bytes a lead byte asks for (-1: not a lead byte)
Utf8Need(b) ==
    IF b >= 194 /\ b <= 223 THEN 1
    ELSE IF b >= 224 /\ b <= 239 THEN 2
    ELSE IF b >= 240 /\ b <= 244 THEN 3
    ELSE -1

\* the range of the first continuation byte after lead byte b
Utf8SecondOk(b, c) ==
    /\ IsCont(c)
    /\ (b = 224 => c >= 160)
    /\ (b = 237 => c <= 159)
    /\ (b = 240 => c >= 144)
    /\ (b = 244 => c <= 143)

\* every byte is ASCII, a lead byte followed by its continuation bytes, or a
\* continuation byte of the lead byte at most three places before it
from_utf8_ok(bs) ==
    \A i \in 1..Len(bs) :
        LET b == bs[i]
        IN  \/ b < 128
            \/ /\ Utf8Need(b) > 0
               /\ i + Utf8Need(b) <= Len(bs)
               /\ Utf8SecondOk(b, bs[i + 1])
               /\ \A k \in 2..Utf8Need(b) : IsCont(bs[i + k])
            \/ /\ IsCont(b)
               /\ \E k \in 1..3 :
                      /\ i - k >= 1
                      /\ Utf8Need(bs[i - k]) >= k
                      /\ \A j \in 1..(k - 1) : IsCont(bs[i - j])

starts_with(bs, prefix) ==
    Len(bs) >= Len(prefix) /\ SubSeq(bs, 1, Len(prefix)) = prefix

\* str::find("\r\n"): byte offset of the first CR LF, or -1
find_crlf(bs) ==
    LET hits == {i \in 0..(Len(bs) - 2) : bs[i + 1] = 13 /\ bs[i + 2] = 10}
    IN  IF hits = {} THEN -1
        ELSE CHOOSE i \in hits : \A j \in hits : i <= j

(***************************************************************************)
(* X.224 Connection Request / Confirm (pdu/x224/connection.rs).            *)
(***************************************************************************)
X224_CR_TYPE == 224

X224_CC_TYPE == 208

X224_CONNECTION_HEADER_MIN_SIZE == 7

RDP_NEG_REQ == 1

RDP_NEG_RSP == 2

RDP_NEG_DATA_SIZE == 8

\* "Cookie: mstshash="
CookiePrefix == <<67, 111, 111, 107, 105, 101, 58, 32, 109, 115, 116, 115, 104, 97, 115, 104, 61>>

RdpNegotiation_new_request(protocol) ==
    [neg_type |-> RDP_NEG_REQ, flags |-> 0, selected_protocol |-> protocol]

RdpNegotiation_new_response(protocol) ==
    [neg_type |-> RDP_NEG_RSP, flags |-> 0, selected_protocol |-> protocol]

RdpNegotiation_encode(n) ==
    <<n.neg_type, n.flags>> \o LE16(RDP_NEG_DATA_SIZE) \o LE32(n.selected_protocol)

RdpNegotiation_decode(src) ==
    IF Len(src) < 4 THEN Err("IoError", Len(src))
    ELSE LET length == ReadLE16(src, 2)
         IN  IF length # RDP_NEG_DATA_SIZE
             THEN ErrD("InvalidLength", <<RDP_NEG_DATA_SIZE, length>>, 4)
             ELSE IF Len(src) < 8 THEN Err("IoError", Len(src))
             ELSE Ok([neg_type |-> src[1], flags |-> src[2],
                      selected_protocol |-> ReadLE32(src, 4)], 8)

RdpNegotiation_size(n) == RDP_NEG_DATA_SIZE

ConnectionHeader_new_request(src_ref) ==
    [length_indicator |-> 6, pdu_type |-> X224_CR_TYPE, dst_ref |-> 0,
     src_ref |-> src_ref, class_option |-> 0]

ConnectionHeader_new_confirm(dst_ref, src_ref) ==
    [length_indicator |-> 6, pdu_type |-> X224_CC_TYPE, dst_ref |-> dst_ref,
     src_ref |-> src_ref, class_option |-> 0]

ConnectionHeader_encode(h) ==
    <<h.length_indicator, h.pdu_type>> \o LE16(h.dst_ref) \o LE16(h.src_ref)
        \o <<h.class_option>>

ConnectionHeader_decode(src) ==
    IF Len(src) < 2 THEN Err("IoError", Len(src))
    ELSE IF src[2] # X224_CR_TYPE /\ src[2] # X224_CC_TYPE
         THEN ErrD("InvalidPduType", <<src[2]>>, 2)
    ELSE IF Len(src) < 7 THEN Err("IoError", Len(src))
    ELSE Ok([length_indicator |-> src[1], pdu_type |-> src[2],
             dst_ref |-> ReadLE16(src, 2), src_ref |-> ReadLE16(src, 4),
             class_option |-> src[7]], 7)

ConnectionHeader_size(h) == h.length_indicator + 1

ConnectionRequest_new(src_ref) ==
    [kind |-> "ConnectionRequest", header |-> ConnectionHeader_new_request(src_ref),
     cookie |-> None, rdp_negotiation |-> None]

\* the u8 cast truncates
update_length_indicator(m) ==
    LET variable_size ==
            (IF m.cookie.some THEN Len(m.cookie.v) ELSE 0)
          + (IF m.rdp_negotiation.some THEN RdpNegotiation_size(m.rdp_negotiation.v) ELSE 0)
    IN  [m EXCEPT !.header.length_indicator =
            (X224_CONNECTION_HEADER_MIN_SIZE - 1 + variable_size) % 256]

\* username is the UTF-8 bytes of the &str
ConnectionRequest_with_cookie(m, username) ==
    update_length_indicator(
        [m EXCEPT !.cookie = Some(CookiePrefix \o username \o <<13, 10>>)])

ConnectionRequest_with_negotiation(m, protocol) ==
    update_length_indicator(
        [m EXCEPT !.rdp_negotiation = Some(RdpNegotiation_new_request(protocol))])

ConnectionRequest_encode(m) ==
    ConnectionHeader_encode(m.header)
        \o (IF m.cookie.some THEN m.cookie.v ELSE <<>>)
        \o (IF m.rdp_negotiation.some
            THEN RdpNegotiation_encode(m.rdp_negotiation.v) ELSE <<>>)

\* (length_indicator + 1).saturating_sub(7)
variable_length(h) ==
    IF h.length_indicator + 1 > X224_CONNECTION_HEADER_MIN_SIZE
    THEN h.length_indicator + 1 - X224_CONNECTION_HEADER_MIN_SIZE
    ELSE 0

ConnectionRequest_decode(src) ==
    LET hd == ConnectionHeader_decode(src)
    IN  IF ~hd.ok THEN hd
        ELSE IF hd.value.pdu_type # X224_CR_TYPE
             THEN ErrD("InvalidPduType", <<hd.value.pdu_type>>, 7)
        ELSE LET header == hd.value
                 vlen == variable_length(header)
             IN  IF vlen = 0
                 THEN Ok([kind |-> "ConnectionRequest", header |-> header,
                          cookie |-> None, rdp_negotiation |-> None], 7)
                 ELSE IF Len(src) < 7 + vlen THEN Err("IoError", Len(src))
                 ELSE LET variable_data == Slice(src, 7, vlen)
                          end == find_crlf(variable_data)
                          has_cookie == /\ from_utf8_ok(variable_data)
                                        /\ starts_with(variable_data, CookiePrefix)
                                        /\ end >= 0
                          position == IF has_cookie THEN end + 2 ELSE 0
                          neg == RdpNegotiation_decode(Drop(variable_data, position))
                      IN  Ok([kind |-> "ConnectionRequest", header |-> header,
                              cookie |-> IF has_cookie
                                         THEN Some(SubSeq(variable_data, 1, end + 2))
                                         ELSE None,
                              rdp_negotiation |->
                                  IF position < vlen /\ neg.ok THEN Some(neg.value)
                                  ELSE None],
                             7 + vlen)

ConnectionRequest_size(m) ==
    ConnectionHeader_size(m.header)
        + (IF m.cookie.some THEN Len(m.cookie.v) ELSE 0)
        + (IF m.rdp_negotiation.some THEN RdpNegotiation_size(m.rdp_negotiation.v) ELSE 0)

ConnectionConfirm_new(dst_ref, src_ref) ==
    [kind |-> "ConnectionConfirm", header |-> ConnectionHeader_new_confirm(dst_ref, src_ref),
     rdp_negotiation |-> None]

ConnectionConfirm_with_negotiation(m, protocol) ==
    [m EXCEPT !.rdp_negotiation = Some(RdpNegotiation_new_response(protocol)),
              !.header.length_indicator =
                  (X224_CONNECTION_HEADER_MIN_SIZE - 1 + RDP_NEG_DATA_SIZE) % 256]

ConnectionConfirm_encode(m) ==
    ConnectionHeader_encode(m.header)
        \o (IF m.rdp_negotiation.some
            THEN RdpNegotiation_encode(m.rdp_negotiation.v) ELSE <<>>)

ConnectionConfirm_decode(src) ==
    LET hd == ConnectionHeader_decode(src)
    IN  IF ~hd.ok THEN hd
        ELSE IF hd.value.pdu_type # X224_CC_TYPE
             THEN ErrD("InvalidPduType", <<hd.value.pdu_type>>, 7)
        ELSE LET header == hd.value
                 vlen == variable_length(header)
             IN  IF vlen = 0
                 THEN Ok([kind |-> "ConnectionConfirm", header |-> header,
                          rdp_negotiation |-> None], 7)
                 ELSE IF Len(src) < 7 + vlen THEN Err("IoError", Len(src))
                 ELSE LET neg == RdpNegotiation_decode(Slice(src, 7, vlen))
                      IN  Ok([kind |-> "ConnectionConfirm", header |-> header,
                              rdp_negotiation |->
                                  IF neg.ok THEN Some(neg.value) ELSE None],
                             7 + vlen)

ConnectionConfirm_size(m) ==
    ConnectionHeader_size(m.header)
        + (IF m.rdp_negotiation.some THEN RdpNegotiation_size(m.rdp_negotiation.v) ELSE 0)

(***************************************************************************)
(* X.224 data header (pdu/x224/data.rs).                                   *)
(***************************************************************************)
X224_DATA_TYPE == 240

EOT_FLAG == 1

X224_DATA_HEADER_MIN_SIZE == 2

DataHeader_new(eot) ==
    [kind |-> "DataHeader", length_indicator |-> X224_DATA_HEADER_MIN_SIZE - 1,
     pdu_type |-> X224_DATA_TYPE, eot |-> eot]

\* pdu_type | EOT_FLAG sets bit 0
DataHeader_encode(h) ==
    <<h.length_indicator,
      IF h.eot THEN h.pdu_type - (h.pdu_type % 2) + EOT_FLAG ELSE h.pdu_type>>

\* DataHeader::decode comparing the whole type byte, without masking bit 0
DataHeader_decode_unmasked(src) ==
    IF Len(src) < 2 THEN Err("IoError", Len(src))
    ELSE LET length_indicator == src[1]
             type_byte == src[2]
             eot == (type_byte % 2) # 0
             extra_bytes == length_indicator - (X224_DATA_HEADER_MIN_SIZE - 1)
         IN  IF type_byte # X224_DATA_TYPE THEN ErrD("InvalidPduType", <<type_byte>>, 2)
             ELSE IF length_indicator < X224_DATA_HEADER_MIN_SIZE - 1
                  THEN ErrD("InvalidLength",
                            <<X224_DATA_HEADER_MIN_SIZE - 1, length_indicator>>, 2)
             ELSE IF Len(src) < 2 + extra_bytes THEN Err("IoError", Len(src))
             ELSE Ok([kind |-> "DataHeader", length_indicator |-> length_indicator,
                      pdu_type |-> X224_DATA_TYPE, eot |-> eot], 2 + extra_bytes)

DataHeader_decode(src) ==
    IF Len(src) < 2 THEN Err("IoError", Len(src))
    ELSE LET length_indicator == src[1]
             type_byte == src[2]
             eot == (type_byte % 2) # 0
             pdu_type == type_byte - (type_byte % 2)
             extra_bytes == length_indicator - (X224_DATA_HEADER_MIN_SIZE - 1)
         IN  IF pdu_type # X224_DATA_TYPE THEN ErrD("InvalidPduType", <<type_byte>>, 2)
             ELSE IF length_indicator < X224_DATA_HEADER_MIN_SIZE - 1
                  THEN ErrD("InvalidLength",
                            <<X224_DATA_HEADER_MIN_SIZE - 1, length_indicator>>, 2)
             ELSE IF Len(src) < 2 + extra_bytes THEN Err("IoError", Len(src))
             ELSE Ok([kind |-> "DataHeader", length_indicator |-> length_indicator,
                      pdu_type |-> X224_DATA_TYPE, eot |-> eot], 2 + extra_bytes)

DataHeader_size(h) == h.length_indicator + 1

DataPdu_new_with_eot(payload, eot) ==
    [kind |-> "DataPdu", header |-> DataHeader_new(eot), payload |-> payload]

DataPdu_new(payload) == DataPdu_new_with_eot(payload, TRUE)

DataPdu_encode(m) == DataHeader_encode(m.header) \o m.payload

\* the header, then read_to_end: every byte left in the source is payload
DataPdu_decode(src) ==
    LET hd == DataHeader_decode(src)
    IN  IF ~hd.ok THEN hd
        ELSE Ok([kind |-> "DataPdu", header |-> hd.value,
                 payload |-> Drop(src, hd.consumed)], Len(src))

DataPdu_size(m) == DataHeader_size(m.header) + Len(m.payload)

(***************************************************************************)
(* BER sub-codec (codec/ber.rs).  A reader is (buffer, position); every    *)
(* read returns the value or the error together with the position the      *)
(* reader is left at.                                                      *)
(***************************************************************************)
BerTag_Boolean == 1

BerTag_Integer == 2

BerTag_OctetString == 4

BerTag_Enumerated == 10

BerClass_Application == 64

BerClass_ContextSpecific == 128

BOk(v, p) == [ok |-> TRUE, err |-> "none", val |-> v, pos |-> p]

BErr(e, p) == [ok |-> FALSE, err |-> e, val |-> 0, pos |-> p]

remaining(buf, pos) == IF Len(buf) > pos THEN Len(buf) - pos ELSE 0

read_tag(buf, pos) ==
    IF remaining(buf, pos) < 1 THEN BErr("InsufficientData", pos)
    ELSE BOk(buf[pos + 1], pos + 1)

\* big-endian value of a short byte string
RECURSIVE BEValue(_)
BEValue(bs) ==
    IF bs = <<>> THEN 0
    ELSE BEValue(SubSeq(bs, 1, Len(bs) - 1)) * 256 + bs[Len(bs)]

\* BerReader::read_length without the limit of four length octets
read_length_no_octet_limit(buf, pos) ==
    IF remaining(buf, pos) < 1 THEN BErr("InsufficientData", pos)
    ELSE LET first_byte == buf[pos + 1]
             num_octets == first_byte % 128
         IN  IF first_byte < 128 THEN BOk(first_byte, pos + 1)
             ELSE IF num_octets = 0 THEN BErr("ParseError", pos + 1)
             ELSE IF remaining(buf, pos + 1) < num_octets
                  THEN BErr("InsufficientData", pos + 1)
             ELSE BOk(BEValue(Slice(buf, pos + 1, num_octets)), pos + 1 + num_octets)

read_length(buf, pos) ==
    IF remaining(buf, pos) < 1 THEN BErr("InsufficientData", pos)
    ELSE LET first_byte == buf[pos + 1]
             num_octets == first_byte % 128
         IN  IF first_byte < 128 THEN BOk(first_byte, pos + 1)
             ELSE IF num_octets = 0 THEN BErr("ParseError", pos + 1)
             ELSE IF num_octets > 4 THEN BErr("ParseError", pos + 1)
             ELSE IF remaining(buf, pos + 1) < num_octets
                  THEN BErr("InsufficientData", pos + 1)
             ELSE BOk(BEValue(Slice(buf, pos + 1, num_octets)), pos + 1 + num_octets)

\* value = (value << 8) | byte over `length` <= 4 bytes, as a u32
U32FromBytes(bs) == [i \in 1..4 |-> IF i + Len(bs) > 4 THEN bs[i + Len(bs) - 4] ELSE 0]

read_integer(buf, pos) ==
    LET t == read_tag(buf, pos)
    IN  IF ~t.ok THEN t
        ELSE IF t.val # BerTag_Integer THEN BErr("ParseError", t.pos)
        ELSE LET l == read_length(buf, t.pos)
             IN  IF ~l.ok THEN l
                 ELSE IF l.val = 0 \/ l.val > 4 THEN BErr("ParseError", l.pos)
                 ELSE IF remaining(buf, l.pos) < l.val
                      THEN BErr("InsufficientData", l.pos)
                 ELSE BOk(U32FromBytes(Slice(buf, l.pos, l.val)), l.pos + l.val)

read_enumerated(buf, pos) ==
    LET t == read_tag(buf, pos)
    IN  IF ~t.ok THEN t
        ELSE IF t.val # BerTag_Enumerated THEN BErr("ParseError", t.pos)
        ELSE LET l == read_length(buf, t.pos)
             IN  IF ~l.ok THEN l
                 ELSE IF l.val # 1 THEN BErr("ParseError", l.pos)
                 ELSE IF remaining(buf, l.pos) < 1
                      THEN BErr("InsufficientData", l.pos)
                 ELSE BOk(buf[l.pos + 1], l.pos + 1)

read_application_tag(buf, pos, expected_tag) ==
    LET t == read_tag(buf, pos)
    IN  IF ~t.ok THEN t
        ELSE IF t.val # BerClass_Application + expected_tag
             THEN BErr("ParseError", t.pos)
        ELSE read_length(buf, t.pos)

read_bytes(buf, pos, length) ==
    IF remaining(buf, pos) < length THEN BErr("InsufficientData", pos)
    ELSE BOk(Slice(buf, pos, length), pos + length)

read_octet_string(buf, pos) ==
    LET t == read_tag(buf, pos)
    IN  IF ~t.ok THEN t
        ELSE IF t.val # BerTag_OctetString THEN BErr("ParseError", t.pos)
        ELSE LET l == read_length(buf, t.pos)
             IN  IF ~l.ok THEN l ELSE read_bytes(buf, l.pos, l.val)

read_boolean(buf, pos) ==
    LET t == read_tag(buf, pos)
    IN  IF ~t.ok THEN t
        ELSE IF t.val # BerTag_Boolean THEN BErr("ParseError", t.pos)
        ELSE LET l == read_length(buf, t.pos)
             IN  IF ~l.ok THEN l
                 ELSE IF l.val # 1 THEN BErr("ParseError", l.pos)
                 ELSE IF remaining(buf, l.pos) < 1
                      THEN BErr("InsufficientData", l.pos)
                 ELSE BOk(buf[l.pos + 1] # 0, l.pos + 1)

read_context_tag(buf, pos, expected_tag) ==
    LET t == read_tag(buf, pos)
    IN  IF ~t.ok THEN t
        ELSE IF t.val # BerClass_ContextSpecific + expected_tag
             THEN BErr("ParseError", t.pos)
        ELSE read_length(buf, t.pos)

\* the octets of n, most significant first, without leading zero octets
RECURSIVE MinimalBE(_)
MinimalBE(n) == IF n = 0 THEN <<>> ELSE MinimalBE(n \div 256) \o <<n % 256>>

\* BerWriter::write_length always using four length octets in the long form
write_length_four_octets(length) ==
    IF length < 128 THEN <<length>>
    ELSE <<132, (length \div 16777216) % 256, (length \div 65536) % 256,
           (length \div 256) % 256, length % 256>>

write_length(length) ==
    IF length < 128 THEN <<length>>
    ELSE <<128 + Len(MinimalBE(length))>> \o MinimalBE(length)

\* while temp > 0 { push(temp & 0xFF); temp >>= 8 } then reverse, on a u32
RECURSIVE SignificantBytes(_)
SignificantBytes(temp) ==
    IF temp = <<0, 0, 0, 0>> THEN <<>>
    ELSE SignificantBytes(<<0, temp[1], temp[2], temp[3]>>) \o <<temp[4]>>

write_integer(value) ==
    LET stripped == SignificantBytes(value)
        bytes == IF value = <<0, 0, 0, 0>> THEN <<0>>
                 ELSE IF stripped[1] >= 128 THEN <<0>> \o stripped
                 ELSE stripped
    IN  <<BerTag_Integer>> \o write_length(Len(bytes)) \o bytes

write_enumerated(value) == <<BerTag_Enumerated>> \o write_length(1) \o <<value>>

write_application_tag(tag, inner) ==
    <<BerClass_Application + tag>> \o write_length(Len(inner)) \o inner

(***************************************************************************)
(* MCS domain and channel PDUs (pdu/mcs/domain.rs, pdu/mcs/channel.rs).    *)
(* Every decoder first reads its source to the end, then parses.           *)
(***************************************************************************)
MCS_ERECT_DOMAIN_REQUEST == 1

MCS_ATTACH_USER_REQUEST == 10

MCS_ATTACH_USER_CONFIRM == 11

MCS_CHANNEL_JOIN_REQUEST == 14

MCS_CHANNEL_JOIN_CONFIRM == 15

\* McsResult::from_u8 is defined on 0..15
McsResult_from_u8_ok(value) == value >= 0 /\ value <= 15

ErectDomainRequest_new(sub_height, sub_interval) ==
    [kind |-> "ErectDomainRequest", sub_height |-> sub_height,
     sub_interval |-> sub_interval]

ErectDomainRequest_encode(m) ==
    write_application_tag(MCS_ERECT_DOMAIN_REQUEST,
        write_integer(m.sub_height) \o write_integer(m.sub_interval))

ErectDomainRequest_decode(src) ==
    LET a == read_application_tag(src, 0, MCS_ERECT_DOMAIN_REQUEST)
    IN  IF ~a.ok THEN Err(a.err, Len(src))
        ELSE LET h == read_integer(src, a.pos)
             IN  IF ~h.ok THEN Err(h.err, Len(src))
                 ELSE LET i == read_integer(src, h.pos)
                      IN  IF ~i.ok THEN Err(i.err, Len(src))
                          ELSE Ok(ErectDomainRequest_new(h.val, i.val), Len(src))

AttachUserRequest_new == [kind |-> "AttachUserRequest"]

AttachUserRequest_encode(m) == write_application_tag(MCS_ATTACH_USER_REQUEST, <<>>)

AttachUserRequest_decode(src) ==
    LET a == read_application_tag(src, 0, MCS_ATTACH_USER_REQUEST)
    IN  IF ~a.ok THEN Err(a.err, Len(src))
        ELSE Ok(AttachUserRequest_new, Len(src))

AttachUserConfirm_new(res, user_id) ==
    [kind |-> "AttachUserConfirm", result |-> res, user_id |-> user_id]

AttachUserConfirm_encode(m) ==
    write_application_tag(MCS_ATTACH_USER_CONFIRM,
        write_enumerated(m.result)
            \o (IF m.user_id.some THEN write_integer(U32FromU16(m.user_id.v)) ELSE <<>>))

AttachUserConfirm_decode(src) ==
    LET a == read_application_tag(src, 0, MCS_ATTACH_USER_CONFIRM)
    IN  IF ~a.ok THEN Err(a.err, Len(src))
        ELSE LET r == read_enumerated(src, a.pos)
             IN  IF ~r.ok THEN Err(r.err, Len(src))
                 ELSE IF ~McsResult_from_u8_ok(r.val) THEN Err("ParseError", Len(src))
                 ELSE IF remaining(src, r.pos) > 0
                      THEN LET u == read_integer(src, r.pos)
                           IN  IF ~u.ok THEN Err(u.err, Len(src))
                               ELSE Ok(AttachUserConfirm_new(r.val, Some(U16FromU32(u.val))),
                                       Len(src))
                 ELSE Ok(AttachUserConfirm_new(r.val, None), Len(src))

ChannelJoinRequest_new(user_id, channel_id) ==
    [kind |-> "ChannelJoinRequest", user_id |-> user_id, channel_id |-> channel_id]

ChannelJoinRequest_encode(m) ==
    write_application_tag(MCS_CHANNEL_JOIN_REQUEST,
        write_integer(U32FromU16(m.user_id)) \o write_integer(U32FromU16(m.channel_id)))

ChannelJoinRequest_decode(src) ==
    LET a == read_application_tag(src, 0, MCS_CHANNEL_JOIN_REQUEST)
    IN  IF ~a.ok THEN Err(a.err, Len(src))
        ELSE LET u == read_integer(src, a.pos)
             IN  IF ~u.ok THEN Err(u.err, Len(src))
                 ELSE LET c == read_integer(src, u.pos)
                      IN  IF ~c.ok THEN Err(c.err, Len(src))
                          ELSE Ok(ChannelJoinRequest_new(U16FromU32(u.val),
                                                         U16FromU32(c.val)), Len(src))

ChannelJoinConfirm_new(res, user_id, requested_channel_id, channel_id) ==
    [kind |-> "ChannelJoinConfirm", result |-> res, user_id |-> user_id,
     requested_channel_id |-> requested_channel_id, channel_id |-> channel_id]

ChannelJoinConfirm_success(user_id, channel_id) ==
    ChannelJoinConfirm_new(0, user_id, channel_id, Some(channel_id))

\* ChannelJoinConfirm::encode leaving out the optional actual channel id
ChannelJoinConfirm_encode_without_channel(m) ==
    write_application_tag(MCS_CHANNEL_JOIN_CONFIRM,
        write_enumerated(m.result)
            \o write_integer(U32FromU16(m.user_id))
            \o write_integer(U32FromU16(m.requested_channel_id)))

ChannelJoinConfirm_encode(m) ==
    write_application_tag(MCS_CHANNEL_JOIN_CONFIRM,
        write_enumerated(m.result)
            \o write_integer(U32FromU16(m.user_id))
            \o write_integer(U32FromU16(m.requested_channel_id))
            \o (IF m.channel_id.some
                THEN write_integer(U32FromU16(m.channel_id.v)) ELSE <<>>))

ChannelJoinConfirm_decode(src) ==
    LET a == read_application_tag(src, 0, MCS_CHANNEL_JOIN_CONFIRM)
    IN  IF ~a.ok THEN Err(a.err, Len(src))
        ELSE LET r == read_enumerated(src, a.pos)
             IN  IF ~r.ok THEN Err(r.err, Len(src))
                 ELSE IF ~McsResult_from_u8_ok(r.val) THEN Err("ParseError", Len(src))
                 ELSE LET u == read_integer(src, r.pos)
                      IN  IF ~u.ok THEN Err(u.err, Len(src))
                          ELSE LET q == read_integer(src, u.pos)
                               IN  IF ~q.ok THEN Err(q.err, Len(src))
                                   ELSE IF remaining(src, q.pos) > 0
                                        THEN LET c == read_integer(src, q.pos)
                                             IN  IF ~c.ok THEN Err(c.err, Len(src))
                                                 ELSE Ok(ChannelJoinConfirm_new(r.val,
                                                             U16FromU32(u.val),
                                                             U16FromU32(q.val),
                                                             Some(U16FromU32(c.val))),
                                                         Len(src))
                                   ELSE Ok(ChannelJoinConfirm_new(r.val, U16FromU32(u.val),
                                               U16FromU32(q.val), None), Len(src))

(***************************************************************************)
(* TPKT framer (pdu/tpkt.rs).                                              *)
(***************************************************************************)
TPKT_VERSION == 3

TPKT_HEADER_SIZE == 4

\* u16 addition; the sum wraps in a release build (a debug build panics on
\* overflow, which needs a payload of 65532 bytes or more)
TpktHeader_new(payload_length) ==
    [version |-> TPKT_VERSION, reserved |-> 0,
     length |-> (TPKT_HEADER_SIZE + payload_length) % 65536]

\* TpktHeader::encode writing the length low byte first
TpktHeader_encode_little_endian(h) == <<h.version, h.reserved>> \o LE16(h.length)

TpktHeader_encode(h) == <<h.version, h.reserved>> \o BE16(h.length)

\* TpktHeader::decode validating the length before the version
TpktHeader_decode_length_first(src) ==
    IF Len(src) < 4 THEN Err("IoError", Len(src))
    ELSE LET version == src[1]
             length == ReadBE16(src, 2)
         IN  IF length < TPKT_HEADER_SIZE
             THEN ErrD("InvalidLength", <<TPKT_HEADER_SIZE, length>>, 4)
             ELSE IF version # TPKT_VERSION
                  THEN ErrD("UnsupportedVersion", <<version>>, 4)
             ELSE Ok([version |-> version, reserved |-> src[2], length |-> length], 4)

TpktHeader_decode(src) ==
    IF Len(src) < 4 THEN Err("IoError", Len(src))
    ELSE LET version == src[1]
             length == ReadBE16(src, 2)
         IN  IF version # TPKT_VERSION THEN ErrD("UnsupportedVersion", <<version>>, 4)
             ELSE IF length < TPKT_HEADER_SIZE
                  THEN ErrD("InvalidLength", <<TPKT_HEADER_SIZE, length>>, 4)
             ELSE Ok([version |-> version, reserved |-> src[2], length |-> length], 4)

\* (length as usize).saturating_sub(4)
payload_length(h) == IF h.length > TPKT_HEADER_SIZE THEN h.length - TPKT_HEADER_SIZE ELSE 0

\* payload.len() as u16 truncates
TpktPacket_new(payload) ==
    [kind |-> "TpktPacket", header |-> TpktHeader_new(Len(payload) % 65536),
     payload |-> payload]

TpktPacket_encode(m) == TpktHeader_encode(m.header) \o m.payload

TpktPacket_decode(src) ==
    LET hd == TpktHeader_decode(src)
    IN  IF ~hd.ok THEN hd
        ELSE LET payload_len == payload_length(hd.value)
             IN  IF Len(src) < 4 + payload_len THEN Err("IoError", Len(src))
                 ELSE Ok([kind |-> "TpktPacket", header |-> hd.value,
                          payload |-> Slice(src, 4, payload_len)], 4 + payload_len)

TpktPacket_size(m) == m.header.length

(***************************************************************************)
(* RDP share data header (pdu/rdp/header.rs).  Its fields are public.      *)
(***************************************************************************)
ShareDataHeader_SIZE == 12

\* the values DataPduType::from_u8 maps to a variant
DataPduTypes == {2, 20, 27, 28, 31} \cup (33..41) \cup (43..50) \cup {54, 55}

ShareDataHeader_new(share_id, pdu_type2, uncompressed_length) ==
    [kind |-> "ShareDataHeader", share_id |-> share_id, stream_id |-> 1,
     uncompressed_length |-> uncompressed_length, pdu_type2 |-> pdu_type2,
     compressed_type |-> 0, compressed_length |-> 0]

ShareDataHeader_encode(h) ==
    LE32(h.share_id) \o <<0, h.stream_id>> \o LE16(h.uncompressed_length)
        \o <<h.pdu_type2, h.compressed_type>> \o LE16(h.compressed_length)

ShareDataHeader_decode(src) ==
    IF Len(src) < ShareDataHeader_SIZE THEN Err("IoError", Len(src))
    ELSE IF src[9] \notin DataPduTypes THEN Err("ParseError", ShareDataHeader_SIZE)
    ELSE Ok([kind |-> "ShareDataHeader", share_id |-> ReadLE32(src, 0),
             stream_id |-> src[6], uncompressed_length |-> ReadLE16(src, 6),
             pdu_type2 |-> src[9], compressed_type |-> src[10],
             compressed_length |-> ReadLE16(src, 10)], ShareDataHeader_SIZE)

ShareDataHeader_size(h) == ShareDataHeader_SIZE

(***************************************************************************)
(* RDP capability sets (pdu/rdp/capability/sets.rs).  A typed capability   *)
(* (General, Bitmap, Order, Input) is kept as the bytes of its fixed-size  *)
(* body; its decoder reads exactly that many bytes whatever the header's   *)
(* length field says.                                                      *)
(***************************************************************************)
CapabilitySetHeader_SIZE == 4

\* the values CapabilitySetType::from_u16 maps to a variant
CapabilitySetTypes == (1..30) \ {6, 11}

TypedCapabilityTypes == {1, 2, 3, 13}

TypedVariant(t) ==
    CASE t = 1 -> "General" [] t = 2 -> "Bitmap" [] t = 3 -> "Order" [] t = 13 -> "Input"

\* DATA_SIZE of the typed bodies
TypedDataSize(t) ==
    CASE t = 1 -> 20 [] t = 2 -> 24 [] t = 3 -> 84 [] t = 13 -> 84

CapabilitySet_Unknown(type_val, data) ==
    [kind |-> "CapabilitySet", variant |-> "Unknown", type_val |-> type_val, data |-> data]

CapabilitySet_Typed(t, body) ==
    [kind |-> "CapabilitySet", variant |-> TypedVariant(t), type_val |-> t, data |-> body]

CapabilitySetHeader_encode(capability_set_type, length_capability) ==
    LE16(capability_set_type) \o LE16(length_capability)

\* Unknown: the header's type is from_u16(type_val).unwrap_or(General)
CapabilitySet_encode(m) ==
    IF m.variant = "Unknown"
    THEN CapabilitySetHeader_encode(
             IF m.type_val \in CapabilitySetTypes THEN m.type_val ELSE 1,
             (CapabilitySetHeader_SIZE + Len(m.data)) % 65536) \o m.data
    ELSE CapabilitySetHeader_encode(m.type_val,
             CapabilitySetHeader_SIZE + TypedDataSize(m.type_val)) \o m.data

CapabilitySetHeader_decode(src) ==
    IF Len(src) < 2 THEN Err("IoError", Len(src))
    ELSE LET type_value == ReadLE16(src, 0)
         IN  IF type_value \notin CapabilitySetTypes THEN Err("ParseError", 2)
             ELSE IF Len(src) < 4 THEN Err("IoError", Len(src))
             ELSE Ok([capability_set_type |-> type_value,
                      length_capability |-> ReadLE16(src, 2)], 4)

\* length_capability - 4 underflows when the length field is below 4: a debug
\* build panics there; a release build wraps, then a typed decoder ignores the
\* value and the unknown branch fails to allocate a body of that size
CapabilitySet_decode(src, build) ==
    LET hd == CapabilitySetHeader_decode(src)
    IN  IF ~hd.ok THEN hd
        ELSE LET t == hd.value.capability_set_type
                 underflow == hd.value.length_capability < CapabilitySetHeader_SIZE
                 data_len == hd.value.length_capability - CapabilitySetHeader_SIZE
             IN  IF underflow /\ build = "debug" THEN Err("Panic", 4)
                 ELSE IF t \in TypedCapabilityTypes
                      THEN IF Len(src) < 4 + TypedDataSize(t) THEN Err("IoError", Len(src))
                           ELSE Ok(CapabilitySet_Typed(t, Slice(src, 4, TypedDataSize(t))),
                                   4 + TypedDataSize(t))
                 ELSE IF underflow THEN Err("Panic", 4)
                 ELSE IF Len(src) < 4 + data_len THEN Err("IoError", Len(src))
                 ELSE Ok(CapabilitySet_Unknown(t, Slice(src, 4, data_len)), 4 + data_len)

CapabilitySet_size(m) ==
    IF m.variant = "Unknown" THEN CapabilitySetHeader_SIZE + Len(m.data)
    ELSE CapabilitySetHeader_SIZE + TypedDataSize(m.type_val)

(***************************************************************************)
(* RDP input events (pdu/rdp/input/mod.rs, keyboard.rs, mouse.rs).         *)
(***************************************************************************)
InputEvent_BASE_SIZE == 4

InputEventPdu_MIN_SIZE == 4

KeyboardEvent_SIZE == 6

UnicodeKeyboardEvent_SIZE == 6

MouseEvent_SIZE == 6

ExtendedMouseEvent_SIZE == 6

SyncEvent_SIZE == 4

InputEventType_Sync == 0

InputEventType_Unused == 2

InputEventType_Scancode == 4

InputEventType_Unicode == 5

InputEventType_Mouse == 32769

InputEventType_ExtendedMouse == 32770

KeyboardEvent_new(flags, key_code) ==
    [variant |-> "Keyboard", a |-> flags, b |-> key_code, c |-> 0]

UnicodeKeyboardEvent_new(flags, unicode_code) ==
    [variant |-> "Unicode", a |-> flags, b |-> unicode_code, c |-> 0]

MouseEvent_new(flags, x_pos, y_pos) ==
    [variant |-> "Mouse", a |-> flags, b |-> x_pos, c |-> y_pos]

ExtendedMouseEvent_new(flags, x_pos, y_pos) ==
    [variant |-> "ExtendedMouse", a |-> flags, b |-> x_pos, c |-> y_pos]

\* SyncEvent has two fields: flags and pad
SyncEvent_new(flags) == [variant |-> "Sync", a |-> flags, b |-> 0]

event_type(e) ==
    CASE e.variant = "Keyboard" -> InputEventType_Scancode
      [] e.variant = "Unicode" -> InputEventType_Unicode
      [] e.variant = "Mouse" -> InputEventType_Mouse
      [] e.variant = "ExtendedMouse" -> InputEventType_ExtendedMouse
      [] e.variant = "Sync" -> InputEventType_Sync

\* KeyboardEvent, UnicodeKeyboardEvent, MouseEvent, ExtendedMouseEvent: three u16
ThreeField_encode(e) == LE16(e.a) \o LE16(e.b) \o LE16(e.c)

SyncEvent_encode(e) == LE16(e.a) \o LE16(e.b)

InputEvent_encode(e) ==
    LE16(0) \o LE16(event_type(e))
        \o (IF e.variant = "Sync" THEN SyncEvent_encode(e) ELSE ThreeField_encode(e))

ThreeField_decode(variant, src, at) ==
    IF Len(src) < at + 6 THEN Err("IoError", Len(src))
    ELSE Ok([variant |-> variant, a |-> ReadLE16(src, at), b |-> ReadLE16(src, at + 2),
             c |-> ReadLE16(src, at + 4)], at + 6)

SyncEvent_decode(src, at) ==
    IF Len(src) < at + 4 THEN Err("IoError", Len(src))
    ELSE Ok([variant |-> "Sync", a |-> ReadLE16(src, at), b |-> ReadLE16(src, at + 2)],
            at + 4)

\* decode one event at offset `at`; consumed is the offset after it
InputEvent_decode(src, at) ==
    IF Len(src) < at + 4 THEN Err("IoError", Len(src))
    ELSE LET message_type == ReadLE16(src, at + 2)
         IN  CASE message_type = InputEventType_Scancode ->
                      ThreeField_decode("Keyboard", src, at + 4)
               [] message_type = InputEventType_Unicode ->
                      ThreeField_decode("Unicode", src, at + 4)
               [] message_type = InputEventType_Mouse ->
                      ThreeField_decode("Mouse", src, at + 4)
               [] message_type = InputEventType_ExtendedMouse ->
                      ThreeField_decode("ExtendedMouse", src, at + 4)
               [] message_type = InputEventType_Sync -> SyncEvent_decode(src, at + 4)
               [] message_type = InputEventType_Unused ->
                      IF Len(src) < at + 10 THEN Err("IoError", Len(src))
                      ELSE Err("ParseError", at + 10)
               [] OTHER -> Err("ParseError", at + 4)

InputEvent_size(e) ==
    InputEvent_BASE_SIZE
        + (CASE e.variant = "Keyboard" -> KeyboardEvent_SIZE
             [] e.variant = "Unicode" -> UnicodeKeyboardEvent_SIZE
             [] e.variant = "Mouse" -> MouseEvent_SIZE
             [] e.variant = "ExtendedMouse" -> ExtendedMouseEvent_SIZE
             [] e.variant = "Sync" -> SyncEvent_SIZE)

\* events.len() as u16
InputEventPdu_new(events) ==
    [kind |-> "InputEventPdu", num_events |-> Len(events) % 65536, events |-> events]

RECURSIVE EncodeEvents(_)
EncodeEvents(events) ==
    IF events = <<>> THEN <<>>
    ELSE InputEvent_encode(Head(events)) \o EncodeEvents(Tail(events))

InputEventPdu_encode(m) == LE16(m.num_events) \o LE16(0) \o EncodeEvents(m.events)

\* for _ in 0..num_events { events.push(InputEvent::decode(buffer)?) }
RECURSIVE DecodeEvents(_, _, _, _)
DecodeEvents(src, at, todo, events) ==
    IF todo = 0 THEN Ok(events, at)
    ELSE LET e == InputEvent_decode(src, at)
         IN  IF ~e.ok THEN e
             ELSE DecodeEvents(src, e.consumed, todo - 1, Append(events, e.value))

InputEventPdu_decode(src) ==
    IF Len(src) < 4 THEN Err("IoError", Len(src))
    ELSE LET num_events == ReadLE16(src, 0)
             es == DecodeEvents(src, 4, num_events, <<>>)
         IN  IF ~es.ok THEN es
             ELSE Ok([kind |-> "InputEventPdu", num_events |-> num_events,
                      events |-> es.value], es.consumed)

RECURSIVE SumSizes(_)
SumSizes(events) ==
    IF events = <<>> THEN 0 ELSE InputEvent_size(Head(events)) + SumSizes(Tail(events))

InputEventPdu_size(m) == InputEventPdu_MIN_SIZE + SumSizes(m.events)

(***************************************************************************)
(* Client Info PDU (pdu/rdp/connection/client_info.rs).  A String is the   *)
(* sequence of its Unicode scalar values; s.len() is its UTF-8 byte        *)
(* length and s.encode_utf16() its UTF-16 code units.                      *)
(***************************************************************************)
TimeZoneInformation_SIZE == 172

RECURSIVE BitAnd(_, _)
BitAnd(a, b) ==
    IF a = 0 \/ b = 0 THEN 0
    ELSE (a % 2) * (b % 2) + 2 * BitAnd(a \div 2, b \div 2)

U32And(u, mask) == [i \in 1..4 |-> BitAnd(u[i], mask[i])]

\* the union of all ClientInfoFlags constants, 0x027FE1FB
ClientInfoFlags_all == <<2, 127, 225, 251>>

\* the union of all PerformanceFlags constants, 0x000001EF
PerformanceFlags_all == <<0, 0, 1, 239>>

\* MOUSE | UNICODE | LOGONNOTIFY | MAXIMIZESHELL | ENABLEWINDOWSKEY | DISABLECTRLALTDEL
ClientInfoFlags_default == <<0, 0, 1, 115>>

Zeros(n) == [i \in 1..n |-> 0]

RECURSIVE str_len(_)
str_len(s) ==
    IF s = <<>> THEN 0
    ELSE (IF Head(s) < 128 THEN 1 ELSE IF Head(s) < 2048 THEN 2
          ELSE IF Head(s) < 65536 THEN 3 ELSE 4) + str_len(Tail(s))

RECURSIVE encode_utf16(_)
encode_utf16(s) ==
    IF s = <<>> THEN <<>>
    ELSE (IF Head(s) < 65536 THEN <<Head(s)>>
          ELSE <<55296 + ((Head(s) - 65536) \div 1024),
                 56320 + ((Head(s) - 65536) % 1024)>>) \o encode_utf16(Tail(s))

IsHighSurrogate(u) == u >= 55296 /\ u <= 56319

IsLowSurrogate(u) == u >= 56320 /\ u <= 57343

\* String::from_utf16: [ok, val]
RECURSIVE from_utf16(_)
from_utf16(units) ==
    IF units = <<>> THEN [ok |-> TRUE, val |-> <<>>]
    ELSE LET u == Head(units)
         IN  IF IsHighSurrogate(u)
             THEN IF Len(units) >= 2 /\ IsLowSurrogate(units[2])
                  THEN LET rest == from_utf16(Tail(Tail(units)))
                       IN  [ok |-> rest.ok,
                            val |-> <<65536 + (u - 55296) * 1024 + (units[2] - 56320)>>
                                        \o rest.val]
                  ELSE [ok |-> FALSE, val |-> <<>>]
             ELSE IF IsLowSurrogate(u) THEN [ok |-> FALSE, val |-> <<>>]
             ELSE LET rest == from_utf16(Tail(units))
                  IN  [ok |-> rest.ok, val |-> <<u>> \o rest.val]

RECURSIVE UnitsLE(_)
UnitsLE(units) ==
    IF units = <<>> THEN <<>> ELSE LE16(Head(units)) \o UnitsLE(Tail(units))

\* ((s.len() + 1) * 2) as u16
encode_string_length(s) == ((str_len(s) + 1) * 2) % 65536

write_unicode_string(s) == UnitsLE(encode_utf16(s)) \o <<0, 0>>

\* the code units at offset `at`, zero units dropped
RECURSIVE NonZeroUnits(_, _, _)
NonZeroUnits(src, at, count) ==
    IF count = 0 THEN <<>>
    ELSE (IF ReadLE16(src, at) # 0 THEN <<ReadLE16(src, at)>> ELSE <<>>)
             \o NonZeroUnits(src, at + 2, count - 1)

read_unicode_string(src, at, byte_count) ==
    IF byte_count = 0 THEN Ok(<<>>, at)
    ELSE LET char_count == byte_count \div 2
         IN  IF Len(src) < at + 2 * char_count THEN Err("IoError", Len(src))
             ELSE LET str == from_utf16(NonZeroUnits(src, at, char_count))
                  IN  IF ~str.ok THEN Err("ParseError", at + 2 * char_count)
                      ELSE Ok(str.val, at + 2 * char_count)

\* the code units of a fixed-size name buffer up to the first zero unit
RECURSIVE UnitsToZero(_, _)
UnitsToZero(buf, at) ==
    IF at + 1 >= Len(buf) \/ ReadLE16(buf, at) = 0 THEN <<>>
    ELSE <<ReadLE16(buf, at)>> \o UnitsToZero(buf, at + 2)

\* String::from_utf16(..).unwrap_or_default()
decode_unicode_string(buf) ==
    LET str == from_utf16(UnitsToZero(buf, 0))
    IN  IF str.ok THEN str.val ELSE <<>>

\* s.encode_utf16().take(max_chars - 1) in a zeroed buffer of size bytes
encode_unicode_string(s, size, max_chars) ==
    LET units == encode_utf16(s)
        taken == SubSeq(units, 1, IF Len(units) < max_chars - 1 THEN Len(units)
                                  ELSE max_chars - 1)
    IN  UnitsLE(taken) \o Zeros(size - 2 * Len(taken))

TimeZoneInformation_utc ==
    [bias |-> <<0, 0, 0, 0>>, standard_name |-> <<>>, standard_date |-> Zeros(16),
     standard_bias |-> <<0, 0, 0, 0>>, daylight_name |-> <<>>,
     daylight_date |-> Zeros(16), daylight_bias |-> <<0, 0, 0, 0>>]

TimeZoneInformation_encode(tz) ==
    LE32(tz.bias) \o encode_unicode_string(tz.standard_name, 64, 32)
        \o tz.standard_date \o LE32(tz.standard_bias)
        \o encode_unicode_string(tz.daylight_name, 64, 32)
        \o tz.daylight_date \o LE32(tz.daylight_bias)

TimeZoneInformation_decode(src, at) ==
    IF Len(src) < at + TimeZoneInformation_SIZE THEN Err("IoError", Len(src))
    ELSE Ok([bias |-> ReadLE32(src, at),
             standard_name |-> decode_unicode_string(Slice(src, at + 4, 64)),
             standard_date |-> Slice(src, at + 68, 16),
             standard_bias |-> ReadLE32(src, at + 84),
             daylight_name |-> decode_unicode_string(Slice(src, at + 88, 64)),
             daylight_date |-> Slice(src, at + 152, 16),
             daylight_bias |-> ReadLE32(src, at + 168)], at + TimeZoneInformation_SIZE)

ClientInfoPdu_new(user_name, password) ==
    [kind |-> "ClientInfoPdu", code_page |-> <<0, 0, 0, 0>>,
     flags |-> ClientInfoFlags_default, domain |-> <<>>, user_name |-> user_name,
     password |-> password, alternate_shell |-> <<>>, working_dir |-> <<>>,
     extended_info |-> None]

ClientInfoPdu_with_domain(m, domain) == [m EXCEPT !.domain = domain]

ClientInfoPdu_with_extended_info(m, ext) == [m EXCEPT !.extended_info = Some(ext)]

ExtendedInfo_encode(ext) ==
    LE16(ext.client_address_family)
        \o LE16(encode_string_length(ext.client_address))
        \o write_unicode_string(ext.client_address)
        \o LE16(encode_string_length(ext.client_dir))
        \o write_unicode_string(ext.client_dir)
        \o TimeZoneInformation_encode(ext.client_time_zone)
        \o LE32(ext.client_session_id) \o LE32(ext.performance_flags)
        \o LE16(0)

ClientInfoPdu_encode(m) ==
    LE32(m.code_page) \o LE32(m.flags)
        \o LE16(encode_string_length(m.domain))
        \o LE16(encode_string_length(m.user_name))
        \o LE16(encode_string_length(m.password))
        \o LE16(encode_string_length(m.alternate_shell))
        \o LE16(encode_string_length(m.working_dir))
        \o write_unicode_string(m.domain)
        \o write_unicode_string(m.user_name)
        \o write_unicode_string(m.password)
        \o write_unicode_string(m.alternate_shell)
        \o write_unicode_string(m.working_dir)
        \o (IF m.extended_info.some THEN ExtendedInfo_encode(m.extended_info.v) ELSE <<>>)

\* read the strings whose byte counts are `counts`, one after the other
RECURSIVE ReadStrings(_, _, _, _)
ReadStrings(src, at, counts, strings) ==
    IF counts = <<>> THEN Ok(strings, at)
    ELSE LET r == read_unicode_string(src, at, Head(counts))
         IN  IF ~r.ok THEN r
             ELSE ReadStrings(src, r.consumed, Tail(counts), Append(strings, r.value))

\* the optional auto-reconnect cookie: a short read here is ignored
SkipAutoReconnect(src, at) ==
    IF Len(src) < at + 2 THEN Len(src)
    ELSE IF Len(src) < at + 2 + ReadLE16(src, at) THEN Len(src)
    ELSE at + 2 + ReadLE16(src, at)

\* the extended info, entered once the address family has been read at `at`
ExtendedInfo_decode(src, at) ==
    IF Len(src) < at + 4 THEN Err("IoError", Len(src))
    ELSE LET addr == read_unicode_string(src, at + 4, ReadLE16(src, at + 2))
         IN  IF ~addr.ok THEN addr
             ELSE IF Len(src) < addr.consumed + 2 THEN Err("IoError", Len(src))
             ELSE LET dir == read_unicode_string(src, addr.consumed + 2,
                                                 ReadLE16(src, addr.consumed))
                  IN  IF ~dir.ok THEN dir
                      ELSE LET tz == TimeZoneInformation_decode(src, dir.consumed)
                           IN  IF ~tz.ok THEN tz
                               ELSE IF Len(src) < tz.consumed + 8
                                    THEN Err("IoError", Len(src))
                               ELSE Ok([client_address_family |-> ReadLE16(src, at),
                                        client_address |-> addr.value,
                                        client_dir |-> dir.value,
                                        client_time_zone |-> tz.value,
                                        client_session_id |-> ReadLE32(src, tz.consumed),
                                        performance_flags |->
                                            U32And(ReadLE32(src, tz.consumed + 4),
                                                   PerformanceFlags_all)],
                                       SkipAutoReconnect(src, tz.consumed + 8))

\* ClientInfoPdu::decode entering the extended info as soon as one byte is left
ClientInfoPdu_decode_one_byte(src) ==
    IF Len(src) < 18 THEN Err("IoError", Len(src))
    ELSE LET strs == ReadStrings(src, 18,
                         <<ReadLE16(src, 8), ReadLE16(src, 10), ReadLE16(src, 12),
                           ReadLE16(src, 14), ReadLE16(src, 16)>>, <<>>)
             base(ext) ==
                 [kind |-> "ClientInfoPdu", code_page |-> ReadLE32(src, 0),
                  flags |-> U32And(ReadLE32(src, 4), ClientInfoFlags_all),
                  domain |-> strs.value[1], user_name |-> strs.value[2],
                  password |-> strs.value[3], alternate_shell |-> strs.value[4],
                  working_dir |-> strs.value[5], extended_info |-> ext]
         IN  IF ~strs.ok THEN strs
             ELSE IF Len(src) < strs.consumed + 1 THEN Ok(base(None), Len(src))
             ELSE LET ext == ExtendedInfo_decode(src, strs.consumed)
                  IN  IF ~ext.ok THEN ext
                      ELSE Ok(base(Some(ext.value)), ext.consumed)

ClientInfoPdu_decode(src) ==
    IF Len(src) < 18 THEN Err("IoError", Len(src))
    ELSE LET strs == ReadStrings(src, 18,
                         <<ReadLE16(src, 8), ReadLE16(src, 10), ReadLE16(src, 12),
                           ReadLE16(src, 14), ReadLE16(src, 16)>>, <<>>)
             base(ext) ==
                 [kind |-> "ClientInfoPdu", code_page |-> ReadLE32(src, 0),
                  flags |-> U32And(ReadLE32(src, 4), ClientInfoFlags_all),
                  domain |-> strs.value[1], user_name |-> strs.value[2],
                  password |-> strs.value[3], alternate_shell |-> strs.value[4],
                  working_dir |-> strs.value[5], extended_info |-> ext]
         IN  IF ~strs.ok THEN strs
             ELSE IF Len(src) < strs.consumed + 2 THEN Ok(base(None), Len(src))
             ELSE LET ext == ExtendedInfo_decode(src, strs.consumed)
                  IN  IF ~ext.ok THEN ext
                      ELSE Ok(base(Some(ext.value)), ext.consumed)

ClientInfoPdu_size(m) ==
    18 + (str_len(m.domain) + 1) * 2 + (str_len(m.user_name) + 1) * 2
       + (str_len(m.password) + 1) * 2 + (str_len(m.alternate_shell) + 1) * 2
       + (str_len(m.working_dir) + 1) * 2
       + (IF m.extended_info.some
          THEN 2 + 2 + (str_len(m.extended_info.v.client_address) + 1) * 2
                 + 2 + (str_len(m.extended_info.v.client_dir) + 1) * 2
                 + TimeZoneInformation_SIZE + 4 + 4 + 2
          ELSE 0)

(***************************************************************************)
(* The Pdu trait (pdu/mod.rs): encode, decode and size of each type.       *)
(***************************************************************************)
(***************************************************************************)
(* Bitmap updates (pdu/rdp/graphics/bitmap.rs).                            *)
(***************************************************************************)
BitmapData_HEADER_SIZE == 18

BitmapUpdate_MIN_SIZE == 2

BitmapFlags_uncompressed == 0

\* bitmap_data.len() as u16 truncates
BitmapData_new(dest_left, dest_top, dest_right, dest_bottom, width, height, bits_per_pixel, flags, bitmap_data) ==
    [dest_left |-> dest_left, dest_top |-> dest_top, dest_right |-> dest_right,
     dest_bottom |-> dest_bottom, width |-> width, height |-> height,
     bits_per_pixel |-> bits_per_pixel, flags |-> flags,
     bitmap_length |-> Len(bitmap_data) % 65536, bitmap_data |-> bitmap_data]

\* x + width - 1 and y + height - 1 are u16 arithmetic, evaluated left to
\* right: a debug build panics when the sum exceeds 65535 or when 1 is taken
\* from 0; a release build wraps modulo 2^16
BitmapData_uncompressed(x, y, width, height, bits_per_pixel, bitmap_data, build) ==
    LET overflow(a, b) == a + b > 65535 \/ (a + b) % 65536 = 0
    IN  IF build = "debug" /\ (overflow(x, width) \/ overflow(y, height))
        THEN Err("Panic", 0)
        ELSE Ok(BitmapData_new(x, y, (x + width + 65535) % 65536,
                               (y + height + 65535) % 65536, width, height,
                               bits_per_pixel, BitmapFlags_uncompressed, bitmap_data), 0)

BitmapData_encode(r) ==
    LE16(r.dest_left) \o LE16(r.dest_top) \o LE16(r.dest_right) \o LE16(r.dest_bottom)
        \o LE16(r.width) \o LE16(r.height) \o LE16(r.bits_per_pixel) \o LE16(r.flags)
        \o LE16(r.bitmap_length) \o r.bitmap_data

BitmapData_decode(src, at) ==
    IF Len(src) < at + 18 THEN Err("IoError", Len(src))
    ELSE LET bitmap_length == ReadLE16(src, at + 16)
         IN  IF Len(src) < at + 18 + bitmap_length THEN Err("IoError", Len(src))
             ELSE Ok([dest_left |-> ReadLE16(src, at), dest_top |-> ReadLE16(src, at + 2),
                      dest_right |-> ReadLE16(src, at + 4),
                      dest_bottom |-> ReadLE16(src, at + 6),
                      width |-> ReadLE16(src, at + 8), height |-> ReadLE16(src, at + 10),
                      bits_per_pixel |-> ReadLE16(src, at + 12),
                      flags |-> ReadLE16(src, at + 14),
                      bitmap_length |-> bitmap_length,
                      bitmap_data |-> Slice(src, at + 18, bitmap_length)],
                     at + 18 + bitmap_length)

BitmapData_size(r) == BitmapData_HEADER_SIZE + Len(r.bitmap_data)

\* rectangles.len() as u16 truncates
BitmapUpdate_new(rectangles) ==
    [kind |-> "BitmapUpdate", number_rectangles |-> Len(rectangles) % 65536,
     rectangles |-> rectangles]

RECURSIVE EncodeRectangles(_)
EncodeRectangles(rs) ==
    IF rs = <<>> THEN <<>> ELSE BitmapData_encode(Head(rs)) \o EncodeRectangles(Tail(rs))

BitmapUpdate_encode(m) == LE16(m.number_rectangles) \o EncodeRectangles(m.rectangles)

RECURSIVE DecodeRectangles(_, _, _, _)
DecodeRectangles(src, at, n, rs) ==
    IF n = 0 THEN Ok(rs, at)
    ELSE LET r == BitmapData_decode(src, at)
         IN  IF ~r.ok THEN r
             ELSE DecodeRectangles(src, r.consumed, n - 1, Append(rs, r.value))

BitmapUpdate_decode(src) ==
    IF Len(src) < 2 THEN Err("IoError", Len(src))
    ELSE LET rs == DecodeRectangles(src, 2, ReadLE16(src, 0), <<>>)
         IN  IF ~rs.ok THEN rs
             ELSE Ok([kind |-> "BitmapUpdate", number_rectangles |-> ReadLE16(src, 0),
                      rectangles |-> rs.value], rs.consumed)

RECURSIVE SumRectangleSizes(_)
SumRectangleSizes(rs) ==
    IF rs = <<>> THEN 0 ELSE BitmapData_size(Head(rs)) + SumRectangleSizes(Tail(rs))

\* BitmapUpdate::size without the two bytes of the rectangle count
BitmapUpdate_size_without_count(m) == SumRectangleSizes(m.rectangles)

BitmapUpdate_size(m) == BitmapUpdate_MIN_SIZE + SumRectangleSizes(m.rectangles)

\* an Erect Domain Request inside an X.224 data PDU inside a TPKT packet
\* (tests/phase2_integration.rs, test_layered_pdu_encoding)
Layered_encode(m) ==
    TpktPacket_encode(TpktPacket_new(
        DataPdu_encode(DataPdu_new(ErectDomainRequest_encode(m.request)))))

\* each layer is decoded from the payload the layer above returned
Layered_decode(src) ==
    LET decoded_tpkt == TpktPacket_decode(src)
    IN  IF ~decoded_tpkt.ok THEN decoded_tpkt
        ELSE LET decoded_x224 == DataPdu_decode(decoded_tpkt.value.payload)
             IN  IF ~decoded_x224.ok THEN decoded_x224
                 ELSE LET decoded_mcs ==
                              ErectDomainRequest_decode(decoded_x224.value.payload)
                      IN  IF ~decoded_mcs.ok THEN decoded_mcs
                          ELSE Ok([kind |-> "LayeredErectDomain",
                                   tpkt_payload |-> decoded_tpkt.value.payload,
                                   x224_payload |-> decoded_x224.value.payload,
                                   request |-> decoded_mcs.value],
                                  decoded_tpkt.consumed)

McsKinds ==
    {"ErectDomainRequest", "AttachUserRequest", "AttachUserConfirm",
     "ChannelJoinRequest", "ChannelJoinConfirm"}

PduEncode(m) ==
    CASE m.kind = "ConnectionRequest" -> ConnectionRequest_encode(m)
      [] m.kind = "ConnectionConfirm" -> ConnectionConfirm_encode(m)
      [] m.kind = "ErectDomainRequest" -> ErectDomainRequest_encode(m)
      [] m.kind = "AttachUserRequest" -> AttachUserRequest_encode(m)
      [] m.kind = "AttachUserConfirm" -> AttachUserConfirm_encode(m)
      [] m.kind = "ChannelJoinRequest" -> ChannelJoinRequest_encode(m)
      [] m.kind = "ChannelJoinConfirm" -> ChannelJoinConfirm_encode(m)
      [] m.kind = "TpktPacket" -> TpktPacket_encode(m)
      [] m.kind = "CapabilitySet" -> CapabilitySet_encode(m)
      [] m.kind = "ClientInfoPdu" -> ClientInfoPdu_encode(m)
      [] m.kind = "InputEventPdu" -> InputEventPdu_encode(m)
      [] m.kind = "DataHeader" -> DataHeader_encode(m)
      [] m.kind = "ShareDataHeader" -> ShareDataHeader_encode(m)
      [] m.kind = "DataPdu" -> DataPdu_encode(m)
      [] m.kind = "BitmapUpdate" -> BitmapUpdate_encode(m)
      [] m.kind = "LayeredErectDomain" -> Layered_encode(m)

PduDecode(d, src, build) ==
    CASE d = "ConnectionRequest" -> ConnectionRequest_decode(src)
      [] d = "ConnectionConfirm" -> ConnectionConfirm_decode(src)
      [] d = "ErectDomainRequest" -> ErectDomainRequest_decode(src)
      [] d = "AttachUserRequest" -> AttachUserRequest_decode(src)
      [] d = "AttachUserConfirm" -> AttachUserConfirm_decode(src)
      [] d = "ChannelJoinRequest" -> ChannelJoinRequest_decode(src)
      [] d = "ChannelJoinConfirm" -> ChannelJoinConfirm_decode(src)
      [] d = "TpktPacket" -> TpktPacket_decode(src)
      [] d = "CapabilitySet" -> CapabilitySet_decode(src, build)
      [] d = "ClientInfoPdu" -> ClientInfoPdu_decode(src)
      [] d = "InputEventPdu" -> InputEventPdu_decode(src)
      [] d = "DataHeader" -> DataHeader_decode(src)
      [] d = "ShareDataHeader" -> ShareDataHeader_decode(src)
      [] d = "DataPdu" -> DataPdu_decode(src)
      [] d = "BitmapUpdate" -> BitmapUpdate_decode(src)
      [] d = "LayeredErectDomain" -> Layered_decode(src)

\* the MCS types compute size by encoding into a scratch writer
PduSize(m) ==
    CASE m.kind = "ConnectionRequest" -> ConnectionRequest_size(m)
      [] m.kind = "ConnectionConfirm" -> ConnectionConfirm_size(m)
      [] m.kind \in McsKinds -> Len(PduEncode(m))
      [] m.kind = "TpktPacket" -> TpktPacket_size(m)
      [] m.kind = "CapabilitySet" -> CapabilitySet_size(m)
      [] m.kind = "ClientInfoPdu" -> ClientInfoPdu_size(m)
      [] m.kind = "InputEventPdu" -> InputEventPdu_size(m)
      [] m.kind = "DataHeader" -> DataHeader_size(m)
      [] m.kind = "ShareDataHeader" -> ShareDataHeader_size(m)
      [] m.kind = "DataPdu" -> DataPdu_size(m)
      [] m.kind = "BitmapUpdate" -> BitmapUpdate_size(m)

\* the BerReader operations a caller invokes on a reader at position pos
BerReaderOps ==
    {"read_integer", "read_octet_string", "read_enumerated", "read_boolean",
     "read_application_tag", "read_context_tag"}

BerReaderCall(op, buf, pos) ==
    CASE op = "read_integer" -> read_integer(buf, pos)
      [] op = "read_octet_string" -> read_octet_string(buf, pos)
      [] op = "read_enumerated" -> read_enumerated(buf, pos)
      [] op = "read_boolean" -> read_boolean(buf, pos)
      [] op = "read_application_tag" ->
             read_application_tag(buf, pos, MCS_ERECT_DOMAIN_REQUEST)
      [] op = "read_context_tag" -> read_context_tag(buf, pos, 0)
      [] op = "read_length" -> read_length(buf, pos)

(***************************************************************************)
(* The inputs the caller draws from.                                       *)
(***************************************************************************)
U16Values == {0, 1001, 1003, 65535}

\* u32 values: 0, 1, 8, 0x80, 0x100, 0x7FFFFFFF, 0x80000000, 0xFFFFFFFF
U32Values ==
    {<<0, 0, 0, 0>>, <<0, 0, 0, 1>>, <<0, 0, 0, 8>>, <<0, 0, 0, 128>>, <<0, 0, 1, 0>>,
     <<127, 255, 255, 255>>, <<128, 0, 0, 0>>, <<255, 255, 255, 255>>}

\* cookie user names as UTF-8: "u", "admin", "e-acute", and a long name of 'a'
Usernames ==
    {<<117>>, <<97, 100, 109, 105, 110>>, <<195, 169>>, [i \in 1..LongNameLen |-> 97]}

\* strings as Unicode scalar values: "", "a", e-acute, euro sign, an emoji, "ab"
Strings == {<<>>, <<97>>, <<233>>, <<8364>>, <<128512>>, <<97, 98>>}

McsResults == {0, 14, 15}

OptionU16 == {None} \cup {Some(v) : v \in U16Values}

Payloads == {<<>>, <<1>>, <<1, 2, 3, 4, 5>>, [i \in 1..LongPayloadLen |-> i % 256]}

\* BER elements a peer may send: well formed, wrong length, cut short
BerBuffers ==
    {<<>>, <<2, 1, 5>>, <<2, 4, 255, 255, 255, 255>>, <<2, 5, 0, 255, 255, 255, 255>>,
     <<2, 0>>, <<2, 2, 1>>, <<2, 129, 1, 7>>, <<2, 128>>,
     <<4, 2, 9, 9>>, <<4, 3, 9>>, <<10, 1, 0>>, <<10, 2, 0, 0>>,
     <<1, 1, 255>>, <<1, 1>>, <<65, 3>>, <<128, 2>>, <<128>>}

\* lengths handed to BerWriter::write_length: both sides of every octet-count step
BerLengths ==
    {0, 1, 127, 128, 255, 256, 65535, 65536, 16777215, 16777216, 2147483647}

\* length octets a peer may send: short, long, indefinite, too many, cut short
BerLengthBuffers ==
    {<<>>, <<127>>, <<128>>, <<129>>, <<129, 200>>, <<130, 1, 0>>, <<132, 1, 0, 0, 0>>,
     <<132, 1, 0>>, <<133, 0, 0, 0, 0, 1>>, <<133>>, <<255>>}

\* rectangles built by BitmapData::new, with 0, 9 and 64 bytes of pixel data
BitmapRectangles ==
    {BitmapData_new(0, 0, 0, 0, 1, 1, 8, BitmapFlags_uncompressed, <<>>),
     BitmapData_new(10, 20, 12, 20, 3, 1, 24, BitmapFlags_uncompressed,
                    <<255, 0, 0, 0, 255, 0, 0, 0, 255>>),
     BitmapData_new(0, 0, 7, 7, 8, 8, 8, 1, [i \in 1..64 |-> 0])}

RectangleLists == UNION {[1..n -> BitmapRectangles] : n \in 0..MaxRectangles}

ExcessBytes == {0, 1, 2}

\* capability type values: typed, in the enumeration, and outside it
CapabilityTypeValues == {1, 4, 6, 30, 255}

CapabilityBodies == {<<>>, <<1, 2, 3, 4>>, [i \in 1..20 |-> i], [i \in 1..24 |-> i]}

InputEvents ==
    {KeyboardEvent_new(0, 30), UnicodeKeyboardEvent_new(32768, 65),
     MouseEvent_new(2048, 10, 20), ExtendedMouseEvent_new(32, 1, 2), SyncEvent_new(2)}

EventLists ==
    UNION {[1..n -> InputEvents] : n \in 0..MaxEvents}

ExtendedInfos ==
    {[client_address_family |-> 2, client_address |-> a, client_dir |-> <<>>,
      client_time_zone |-> TimeZoneInformation_utc,
      client_session_id |-> <<0, 0, 0, 0>>, performance_flags |-> <<0, 0, 0, 1>>]
        : a \in {<<>>, <<233>>}}

NegLengths == {8, 0, 7, 9}

\* what the caller holds for source bytes that no encoder of this library produced
PeerInputs ==
    {"RawCapability", "RawConnection", "RawTpkt", "RawDataHeader", "RawShareDataHeader",
     "RawDataPdu"}

(***************************************************************************)
(* The caller.                                                             *)
(***************************************************************************)
Init ==
    /\ msg = NoValue
    /\ wire = <<>>
    /\ excess = <<>>
    /\ decoder = "none"
    /\ result = NoResult
    /\ pc = "idle"

\* a constructor of the public API returns m
Construct(m) ==
    /\ pc = "idle"
    /\ msg' = m
    /\ decoder' = m.kind
    /\ pc' = "built"
    /\ UNCHANGED <<wire, excess, result>>

\* a builder method turns the held message into m
Rebuild(kind, m) ==
    /\ pc = "built"
    /\ msg.kind = kind
    /\ msg' = m
    /\ UNCHANGED <<wire, excess, decoder, result, pc>>

NewConnectionRequest == \E r \in U16Values : Construct(ConnectionRequest_new(r))

WithCookie ==
    \E u \in Usernames :
        Rebuild("ConnectionRequest", ConnectionRequest_with_cookie(msg, u))

WithNegotiation ==
    \E p \in U32Values :
        Rebuild("ConnectionRequest", ConnectionRequest_with_negotiation(msg, p))

NewConnectionConfirm ==
    \E d \in {0, 4660}, r \in {0, 22136} : Construct(ConnectionConfirm_new(d, r))

ConfirmWithNegotiation ==
    \E p \in U32Values :
        Rebuild("ConnectionConfirm", ConnectionConfirm_with_negotiation(msg, p))

NewErectDomainRequest ==
    \E h \in U32Values, i \in U32Values : Construct(ErectDomainRequest_new(h, i))

NewAttachUserRequest == Construct(AttachUserRequest_new)

NewAttachUserConfirm ==
    \E r \in McsResults, u \in OptionU16 : Construct(AttachUserConfirm_new(r, u))

NewChannelJoinRequest ==
    \E u \in U16Values, c \in U16Values : Construct(ChannelJoinRequest_new(u, c))

NewChannelJoinConfirm ==
    \E r \in McsResults, u \in {1001}, q \in {1003, 65535}, c \in OptionU16 :
        Construct(ChannelJoinConfirm_new(r, u, q, c))

NewChannelJoinSuccess ==
    \E u \in {1001}, c \in U16Values : Construct(ChannelJoinConfirm_success(u, c))

NewTpktPacket == \E p \in Payloads : Construct(TpktPacket_new(p))

\* payload_mut hands out the payload vector: the caller pushes a byte or clears it
PayloadMut ==
    /\ msg.kind = "TpktPacket"
    /\ \/ \E b \in ExcessBytes :
              /\ Len(msg.payload) < MaxPayload
              /\ Rebuild("TpktPacket", [msg EXCEPT !.payload = Append(@, b)])
       \/ /\ msg.payload # <<>>
          /\ Rebuild("TpktPacket", [msg EXCEPT !.payload = <<>>])

NewUnknownCapability ==
    \E t \in CapabilityTypeValues, d \in CapabilityBodies :
        Construct(CapabilitySet_Unknown(t, d))

NewClientInfoPdu ==
    \E u \in Strings, p \in Strings : Construct(ClientInfoPdu_new(u, p))

WithDomain ==
    \E d \in Strings : Rebuild("ClientInfoPdu", ClientInfoPdu_with_domain(msg, d))

WithExtendedInfo ==
    \E e \in ExtendedInfos :
        Rebuild("ClientInfoPdu", ClientInfoPdu_with_extended_info(msg, e))

NewInputEventPdu == \E es \in EventLists : Construct(InputEventPdu_new(es))

NewDataHeader == \E eot \in BOOLEAN : Construct(DataHeader_new(eot))

NewDataPdu ==
    \E p \in {<<>>, <<7>>, <<7, 8>>}, eot \in BOOLEAN :
        Construct(DataPdu_new_with_eot(p, eot))

NewBitmapUpdate == \E rs \in RectangleLists : Construct(BitmapUpdate_new(rs))

\* one call of BitmapData::uncompressed; the call returns a rectangle or panics
Uncompressed ==
    \E x \in {0, 100, 65535}, y \in {0, 200}, width \in {0, 64}, height \in {0, 48, 65535},
       build \in {"debug", "release"} :
        /\ pc = "idle"
        /\ msg' = [kind |-> "BitmapDataCall", x |-> x, y |-> y, width |-> width,
                   height |-> height]
        /\ decoder' = "BitmapData_uncompressed"
        /\ result' = BitmapData_uncompressed(x, y, width, height, 16, <<>>, build)
        /\ pc' = "decoded"
        /\ UNCHANGED <<wire, excess>>

\* the caller wraps an Erect Domain Request in a data PDU and a TPKT packet
NewLayered ==
    \E h \in U32Values, i \in U32Values :
        Construct([kind |-> "LayeredErectDomain",
                   request |-> ErectDomainRequest_new(h, i)])

NewShareDataHeader ==
    \E id \in {<<0, 1, 3, 234>>}, ty \in {28, 31}, n \in {0, 8} :
        Construct(ShareDataHeader_new(id, ty, n))

\* the compression fields are public: the caller assigns them
SetCompression ==
    \E ct \in {0, 33}, cl \in {0, 258} :
        Rebuild("ShareDataHeader",
                [msg EXCEPT !.compressed_type = ct, !.compressed_length = cl])

Encode ==
    /\ pc = "built"
    /\ wire' = PduEncode(msg)
    /\ pc' = "encoded"
    /\ UNCHANGED <<msg, excess, decoder, result>>

\* input bytes that come from a peer, not from this library's encoder
Craft(description, bytes, d) ==
    /\ pc = "idle"
    /\ msg' = description
    /\ wire' = bytes
    /\ decoder' = d
    /\ pc' = "encoded"
    /\ UNCHANGED <<excess, result>>

\* a capability set [type (LE16), length (LE16), body]
CraftCapability ==
    \E t \in CapabilityTypeValues, b \in CapabilityBodies :
    \E l \in {4 + Len(b), 0, 3} :
        Craft([kind |-> "RawCapability", type_val |-> t, length |-> l, body |-> b],
              LE16(t) \o LE16(l) \o b, "CapabilitySet")

\* a connection PDU whose variable part is an optional cookie line and a
\* negotiation block with the given type, flags, length field and protocol
CraftConnection ==
    \E ty \in {X224_CR_TYPE, X224_CC_TYPE}, c \in {<<>>, CookiePrefix \o <<117, 13, 10>>},
       nt \in {RDP_NEG_REQ, RDP_NEG_RSP}, f \in {0, 1}, l \in NegLengths,
       p \in {<<0, 0, 0, 1>>, <<0, 0, 0, 128>>} :
        /\ ty = X224_CC_TYPE => c = <<>>
        /\ Craft([kind |-> "RawConnection", pdu_type |-> ty, cookie |-> c,
                  neg_type |-> nt, neg_flags |-> f, neg_length |-> l, protocol |-> p],
                 <<6 + Len(c) + 8, ty, 0, 0, 0, 0, 0>> \o c
                     \o <<nt, f>> \o LE16(l) \o LE32(p),
                 IF ty = X224_CR_TYPE THEN "ConnectionRequest" ELSE "ConnectionConfirm")

\* a TPKT frame [version, reserved, length (BE16), payload]
CraftTpkt ==
    \E v \in {TPKT_VERSION, 2}, l \in {0, 3, 4, 5, 9}, p \in {<<>>, <<1>>, <<1, 2, 3, 4, 5>>} :
        Craft([kind |-> "RawTpkt", version |-> v, length |-> l, payload |-> p],
              <<v, 0>> \o BE16(l) \o p, "TpktPacket")

\* an X.224 data header [length indicator, type byte] and what follows it
CraftDataHeader ==
    \E li \in {0, 1, 2}, ty \in {X224_DATA_TYPE, X224_DATA_TYPE + 1, X224_CR_TYPE, 242, 225} :
        Craft([kind |-> "RawDataHeader", length_indicator |-> li, type_byte |-> ty],
              <<li, ty>>, "DataHeader")

\* an X.224 data PDU [length indicator, type byte, rest of the frame]
CraftDataPdu ==
    \E li \in {1, 2, 3}, ty \in {X224_DATA_TYPE, X224_DATA_TYPE + 1},
       rest \in {<<>>, <<7>>, <<7, 8>>} :
        Craft([kind |-> "RawDataPdu", length_indicator |-> li, type_byte |-> ty,
               rest |-> rest],
              <<li, ty>> \o rest, "DataPdu")

\* a share data header whose compression fields a peer has set
CraftShareDataHeader ==
    \E ty \in {28, 42}, ct \in {0, 33}, cl \in {0, 258} :
        Craft([kind |-> "RawShareDataHeader", pdu_type2 |-> ty, compressed_type |-> ct,
               compressed_length |-> cl],
              <<1, 0, 0, 0, 0, 1, 8, 0, ty, ct>> \o LE16(cl), "ShareDataHeader")

\* a BerReader over a buffer, already advanced to `position` by read_tag
CraftBer ==
    \E op \in BerReaderOps, b \in BerBuffers, start \in {0, 1} :
        Craft([kind |-> "BerReader", position |-> start],
              (IF start = 1 THEN <<48>> ELSE <<>>) \o b, op)

\* a BerReader about to read a length from bytes a peer sent
CraftBerLength ==
    \E b \in BerLengthBuffers, start \in {0, 1} :
        Craft([kind |-> "BerReader", position |-> start],
              (IF start = 1 THEN <<48>> ELSE <<>>) \o b, "read_length")

\* BerWriter::new, write_length(n), into_bytes, and a BerReader over the bytes
WriteLength ==
    \E n \in BerLengths :
        Craft([kind |-> "BerWriter", position |-> 0, length |-> n],
              write_length(n), "read_length")

\* the source holds further bytes after the encoding
AppendExcess ==
    /\ pc = "encoded"
    /\ Len(excess) < MaxExcess
    /\ \E b \in ExcessBytes : excess' = Append(excess, b)
    /\ UNCHANGED <<msg, wire, decoder, result, pc>>

Decode ==
    /\ pc = "encoded"
    /\ msg.kind \notin {"BerReader", "BerWriter"}
    /\ \E build \in {"debug", "release"} :
           result' = PduDecode(decoder, wire \o excess, build)
    /\ pc' = "decoded"
    /\ UNCHANGED <<msg, wire, excess, decoder>>

\* one read operation on the reader; the result carries the position it is left at
BerRead ==
    /\ pc = "encoded"
    /\ msg.kind \in {"BerReader", "BerWriter"}
    /\ LET r == BerReaderCall(decoder, wire \o excess, msg.position)
       IN  result' = IF r.ok THEN Ok(r.val, r.pos) ELSE Err(r.err, r.pos)
    /\ pc' = "decoded"
    /\ UNCHANGED <<msg, wire, excess, decoder>>

\* the caller encodes the value a decoder returned for bytes a peer sent
Reencode ==
    /\ pc = "decoded"
    /\ msg.kind \in PeerInputs
    /\ result.ok
    /\ msg' = result.value
    /\ wire' = PduEncode(result.value)
    /\ excess' = <<>>
    /\ decoder' = result.value.kind
    /\ result' = NoResult
    /\ pc' = "encoded"

Reset ==
    /\ pc = "decoded"
    /\ msg' = NoValue
    /\ wire' = <<>>
    /\ excess' = <<>>
    /\ decoder' = "none"
    /\ result' = NoResult
    /\ pc' = "idle"

Next ==
    \/ NewConnectionRequest
    \/ WithCookie
    \/ WithNegotiation
    \/ NewConnectionConfirm
    \/ ConfirmWithNegotiation
    \/ NewErectDomainRequest
    \/ NewAttachUserRequest
    \/ NewAttachUserConfirm
    \/ NewChannelJoinRequest
    \/ NewChannelJoinConfirm
    \/ NewChannelJoinSuccess
    \/ NewTpktPacket
    \/ PayloadMut
    \/ NewUnknownCapability
    \/ NewClientInfoPdu
    \/ WithDomain
    \/ WithExtendedInfo
    \/ NewInputEventPdu
    \/ NewDataHeader
    \/ NewDataPdu
    \/ NewBitmapUpdate
    \/ Uncompressed
    \/ NewLayered
    \/ CraftDataPdu
    \/ NewShareDataHeader
    \/ SetCompression
    \/ CraftTpkt
    \/ CraftDataHeader
    \/ CraftShareDataHeader
    \/ CraftBer
    \/ CraftBerLength
    \/ WriteLength
    \/ BerRead
    \/ Reencode
    \/ Encode
    \/ CraftCapability
    \/ CraftConnection
    \/ AppendExcess
    \/ Decode
    \/ Reset

Spec == Init /\ [][Next]_vars

(***************************************************************************)
(* The properties the specification states, each as a predicate over the  *)
(* caller's state.                                                         *)
(***************************************************************************)

\* C1: for every ConnectionRequest built by new and any combination of
\* with_cookie and with_negotiation, and every ConnectionConfirm built by new
\* and optionally with_negotiation, size() equals the number of bytes encode
\* writes.
ConnectionSizeEqualsEncodedLength ==
    (pc = "encoded" /\ msg.kind \in {"ConnectionRequest", "ConnectionConfirm"})
        => PduSize(msg) = Len(wire)

\* C2: for every src_ref, cookie user name without CR LF and requested
\* protocol, new(src_ref).with_cookie(username).with_negotiation(protocol)
\* decodes from its own encoding to an equal value: header, cookie line and
\* negotiation block.
ConnectionRequestRoundTrip ==
    (/\ pc = "decoded"
     /\ msg.kind = "ConnectionRequest"
     /\ msg.cookie.some
     /\ msg.rdp_negotiation.some
     /\ excess = <<>>)
        => /\ result.ok
           /\ result.value.header = msg.header
           /\ result.value.cookie = msg.cookie
           /\ result.value.rdp_negotiation = msg.rdp_negotiation

\* C3: read_integer applied to the bytes of write_integer(v) returns v for
\* every unsigned 32-bit v, so ErectDomainRequest::new(sub_height,
\* sub_interval) decodes from its own encoding to the original request.
ErectDomainRequestRoundTrip ==
    (pc = "decoded" /\ msg.kind = "ErectDomainRequest" /\ excess = <<>>)
        => /\ read_integer(write_integer(msg.sub_height), 0).ok
           /\ read_integer(write_integer(msg.sub_height), 0).val = msg.sub_height
           /\ read_integer(write_integer(msg.sub_interval), 0).ok
           /\ read_integer(write_integer(msg.sub_interval), 0).val = msg.sub_interval
           /\ result.ok
           /\ result.value = msg

\* C4: for every capability type value other than the typed ones (1, 2, 3, 13)
\* and every body b, decoding [type, 4 + len(b), b] succeeds with the Unknown
\* variant carrying that type value and exactly b, and encoding that variant
\* gives back the input bytes.
UnknownCapabilityRoundTrip ==
    (/\ pc = "decoded"
     /\ msg.kind = "RawCapability"
     /\ msg.type_val \notin TypedCapabilityTypes
     /\ msg.length = 4 + Len(msg.body)
     /\ excess = <<>>)
        => /\ result.ok
           /\ result.value = CapabilitySet_Unknown(msg.type_val, msg.body)
           /\ CapabilitySet_encode(result.value) = wire

\* C5: an MCS decoder given a well-formed encoding followed by excess bytes
\* consumes exactly the bytes the encoder produced and leaves the excess
\* unread.
McsDecodeConsumesOnlyEncoding ==
    (pc = "decoded" /\ msg.kind \in McsKinds)
        => result.consumed = Len(wire)

\* C6: in AttachUserConfirm::decode and ChannelJoinConfirm::decode the optional
\* trailing field is decided only by the bytes inside the application
\* envelope: an encoding without the field decodes with the field absent even
\* when further bytes follow the envelope.
OptionalFieldBoundedByEnvelope ==
    /\ (pc = "decoded" /\ msg.kind = "AttachUserConfirm" /\ ~msg.user_id.some)
           => (result.ok /\ ~result.value.user_id.some)
    /\ (pc = "decoded" /\ msg.kind = "ChannelJoinConfirm" /\ ~msg.channel_id.some)
           => (result.ok /\ ~result.value.channel_id.some)

\* C7: every TpktPacket reachable through new, payload_mut or a successful
\* decode has a header length of at least 4 that equals 4 + the payload
\* length, so size() and the length field encode writes equal the number of
\* bytes encode writes.
TpktLengthInvariant ==
    /\ (pc \in {"built", "encoded", "decoded"} /\ msg.kind = "TpktPacket")
           => /\ msg.header.length >= 4
              /\ msg.header.length = 4 + Len(msg.payload)
    /\ (pc = "encoded" /\ msg.kind = "TpktPacket")
           => /\ TpktPacket_size(msg) = Len(wire)
              /\ ReadBE16(wire, 2) = Len(wire)
    /\ (pc = "decoded" /\ decoder = "TpktPacket" /\ result.ok)
           => /\ result.value.header.length >= 4
              /\ result.value.header.length = 4 + Len(result.value.payload)

\* C8: in the encoding of every ClientInfoPdu each of the five byte-count
\* fields (domain, user name, password, alternate shell, working directory)
\* equals (UTF-16 code units of the string + 1) * 2, the number of bytes
\* written for the string with its terminator, non-ASCII strings included.
ClientInfoByteCounts ==
    (pc = "encoded" /\ msg.kind = "ClientInfoPdu")
        => /\ ReadLE16(wire, 8) = (Len(encode_utf16(msg.domain)) + 1) * 2
           /\ ReadLE16(wire, 10) = (Len(encode_utf16(msg.user_name)) + 1) * 2
           /\ ReadLE16(wire, 12) = (Len(encode_utf16(msg.password)) + 1) * 2
           /\ ReadLE16(wire, 14) = (Len(encode_utf16(msg.alternate_shell)) + 1) * 2
           /\ ReadLE16(wire, 16) = (Len(encode_utf16(msg.working_dir)) + 1) * 2

\* C9: every input event variant encodes to exactly 10 bytes, so an
\* InputEventPdu holding n events encodes to 4 + 10 * n bytes, and decoding
\* that encoding consumes all of them and yields the same n events.
InputEventPduLayout ==
    /\ (pc \in {"encoded", "decoded"} /\ msg.kind = "InputEventPdu")
           => /\ \A i \in 1..Len(msg.events) : Len(InputEvent_encode(msg.events[i])) = 10
              /\ Len(wire) = 4 + 10 * Len(msg.events)
    /\ (pc = "decoded" /\ msg.kind = "InputEventPdu" /\ excess = <<>>)
           => /\ result.ok
              /\ result.consumed = Len(wire)
              /\ result.value.events = msg.events

\* C10: decoding a ConnectionRequest or ConnectionConfirm whose variable part
\* carries a negotiation block with a length field other than 8 fails with
\* invalid-length, and the error reaches the caller of the PDU decoder.
NegotiationLengthErrorPropagates ==
    (pc = "decoded" /\ msg.kind = "RawConnection" /\ msg.neg_length # RDP_NEG_DATA_SIZE)
        => (~result.ok /\ result.err = "InvalidLength")

\* C11: for every ClientInfoPdu built as new(user, password).with_domain(domain)
\* from arbitrary Unicode strings, decoding its encoding yields the same
\* domain, user name and password, and the encoding is size() bytes long.
ClientInfoRoundTrip ==
    (/\ pc = "decoded"
     /\ msg.kind = "ClientInfoPdu"
     /\ ~msg.extended_info.some
     /\ excess = <<>>)
        => /\ result.ok
           /\ result.value.domain = msg.domain
           /\ result.value.user_name = msg.user_name
           /\ result.value.password = msg.password
           /\ Len(wire) = PduSize(msg)

\* C12: RdpNegotiation::encode writes 0 in the flags byte for every
\* RdpNegotiation value, one decoded from a block with a non-zero flags byte
\* included, and RdpNegotiation::decode accepts every flags byte value.
NegotiationFlagsZeroOnWrite ==
    /\ (/\ pc = "encoded"
        /\ msg.kind \in {"ConnectionRequest", "ConnectionConfirm"}
        /\ msg.rdp_negotiation.some)
           => RdpNegotiation_encode(msg.rdp_negotiation.v)[2] = 0
    /\ (/\ pc = "decoded"
        /\ msg.kind = "RawConnection"
        /\ msg.pdu_type = X224_CC_TYPE
        /\ msg.neg_length = RDP_NEG_DATA_SIZE)
           => /\ result.ok
              /\ result.value.rdp_negotiation.some
              /\ result.value.rdp_negotiation.v.flags = msg.neg_flags

\* C13: ShareDataHeader::encode writes zero in the compressed-type byte and in
\* the 16-bit compressed-length field for every ShareDataHeader value that can
\* be held, one returned by decode or one whose public fields were assigned
\* included.
ShareDataCompressionZeroOnWrite ==
    (pc = "encoded" /\ msg.kind = "ShareDataHeader")
        => /\ wire[10] = 0
           /\ ReadLE16(wire, 10) = 0

\* C14: after any sequence of with_cookie and with_negotiation calls on a
\* ConnectionRequest, for a cookie user name of any length, and after
\* with_negotiation on a ConnectionConfirm, the header length indicator equals
\* the total header bytes minus 1, the total being 7 + the cookie byte length
\* + 8 if a negotiation block is present.
LengthIndicatorInvariant ==
    /\ (pc = "built" /\ msg.kind = "ConnectionRequest")
           => msg.header.length_indicator
                  = 7 + (IF msg.cookie.some THEN Len(msg.cookie.v) ELSE 0)
                      + (IF msg.rdp_negotiation.some THEN 8 ELSE 0) - 1
    /\ (pc = "built" /\ msg.kind = "ConnectionConfirm")
           => msg.header.length_indicator
                  = 7 + (IF msg.rdp_negotiation.some THEN 8 ELSE 0) - 1

\* C15: whenever a BerReader read operation (read_integer, read_octet_string,
\* read_enumerated, read_boolean, read_application_tag, read_context_tag)
\* returns an error, the reader's position and remaining-byte count are the
\* same as before the call.
BerErrorLeavesReaderUnchanged ==
    (pc = "decoded" /\ msg.kind = "BerReader" /\ decoder \in BerReaderOps /\ ~result.ok)
        => /\ result.consumed = msg.position
           /\ remaining(wire \o excess, result.consumed)
                  = remaining(wire \o excess, msg.position)

\* C17: read_integer applied to an INTEGER element whose declared content
\* length is greater than 4 fails with the invalid-length error kind.
IntegerTooLongIsInvalidLength ==
    (/\ pc = "decoded"
     /\ msg.kind = "BerReader"
     /\ decoder = "read_integer"
     /\ Len(wire) >= msg.position + 2
     /\ wire[msg.position + 1] = BerTag_Integer
     /\ wire[msg.position + 2] > 4
     /\ wire[msg.position + 2] < 128)
        => (~result.ok /\ result.err = "InvalidLength")

\* bytes left in the decoded source after the five strings of a Client Info PDU
\* (the fixed 18 bytes and the strings having been read without error)
ClientInfoBytesAfterStrings ==
    Len(wire \o excess)
        - ReadStrings(wire \o excess, 18,
              <<ReadLE16(wire \o excess, 8), ReadLE16(wire \o excess, 10),
                ReadLE16(wire \o excess, 12), ReadLE16(wire \o excess, 14),
                ReadLE16(wire \o excess, 16)>>, <<>>).consumed

ClientInfoStringsRead ==
    /\ pc = "decoded"
    /\ decoder = "ClientInfoPdu"
    /\ Len(wire \o excess) >= 18
    /\ ReadStrings(wire \o excess, 18,
           <<ReadLE16(wire \o excess, 8), ReadLE16(wire \o excess, 10),
             ReadLE16(wire \o excess, 12), ReadLE16(wire \o excess, 14),
             ReadLE16(wire \o excess, 16)>>, <<>>).ok

\* C16 (as stated): ClientInfoPdu::decode returns extended_info Some exactly
\* when at least 1 byte remains after the five strings, and None exactly when
\* no byte remains.
ExtendedInfoPresentIffByteRemains ==
    ClientInfoStringsRead
        => /\ result.ok
           /\ result.value.extended_info.some <=> (ClientInfoBytesAfterStrings >= 1)

\* C16 (amended): ClientInfoPdu::decode returns extended_info None exactly when
\* fewer than 2 bytes remain after the five strings (a lone trailing byte is a
\* short read of the address family and counts as absent); when 2 or more
\* bytes remain it returns Some or fails, never None.
ExtendedInfoAbsentIffShortRead ==
    ClientInfoStringsRead
        => /\ (ClientInfoBytesAfterStrings < 2)
                  => (result.ok /\ ~result.value.extended_info.some)
           /\ (ClientInfoBytesAfterStrings >= 2 /\ result.ok)
                  => result.value.extended_info.some

\* a Client Info PDU decoded with exactly one byte after its strings
ExtendedInfoLoneByteDecoded ==
    /\ ClientInfoStringsRead
    /\ ClientInfoBytesAfterStrings = 1
    /\ result.ok
    /\ ~result.value.extended_info.some

\* C18: for a payload of n <= 65531 bytes, TpktPacket::new(payload).encode
\* writes exactly 4 + n bytes, namely 0x03, 0x00, the big-endian 16-bit value
\* 4 + n, then the payload unchanged, and decoding those bytes returns a packet
\* equal to the original.
TpktNewEncodesAndRoundTrips ==
    (/\ pc \in {"encoded", "decoded"}
     /\ msg.kind = "TpktPacket"
     /\ msg = TpktPacket_new(msg.payload)
     /\ Len(msg.payload) <= 65531)
        => /\ Len(wire) = 4 + Len(msg.payload)
           /\ wire[1] = 3
           /\ wire[2] = 0
           /\ wire[3] = (4 + Len(msg.payload)) \div 256
           /\ wire[4] = (4 + Len(msg.payload)) % 256
           /\ SubSeq(wire, 5, Len(wire)) = msg.payload
           /\ pc = "decoded" => (result.ok /\ result.value = msg)

\* a packet built by new from a payload of more than 255 bytes has been
\* encoded and decoded
TpktLongPayloadDecoded ==
    /\ pc = "decoded"
    /\ msg.kind = "TpktPacket"
    /\ msg = TpktPacket_new(msg.payload)
    /\ Len(msg.payload) > 255
    /\ result.ok

\* C19: TpktPacket::decode reads the 4 header bytes; a version byte other than
\* 3 fails with unsupported-version carrying that byte; otherwise a length
\* field L below 4 fails with invalid-length (expected 4, actual L); otherwise
\* exactly L - 4 payload bytes are read and the bytes after them stay unread.
TpktDecodeChecksInOrder ==
    (pc = "decoded" /\ decoder = "TpktPacket" /\ Len(wire \o excess) >= 4)
        => LET src == wire \o excess
               L == src[3] * 256 + src[4]
           IN  /\ (src[1] # 3)
                      => /\ ~result.ok
                         /\ result.err = "UnsupportedVersion"
                         /\ result.detail = <<src[1]>>
                         /\ result.consumed = 4
               /\ (src[1] = 3 /\ L < 4)
                      => /\ ~result.ok
                         /\ result.err = "InvalidLength"
                         /\ result.detail = <<4, L>>
                         /\ result.consumed = 4
               /\ (src[1] = 3 /\ L >= 4 /\ Len(src) >= L)
                      => /\ result.ok
                         /\ result.consumed = L
                         /\ result.value.payload = SubSeq(src, 5, L)

\* a frame with version 3 and a length field below 4 has been rejected
TpktShortLengthRejected ==
    /\ pc = "decoded"
    /\ decoder = "TpktPacket"
    /\ Len(wire \o excess) >= 4
    /\ wire[1] = 3
    /\ wire[3] * 256 + wire[4] < 4
    /\ ~result.ok

\* C20 (as stated): DataHeader::decode fails with invalid-PDU-type carrying the
\* type byte whenever the type byte with bit 0 cleared is not 0xF0, and for
\* type bytes 0xF0 and 0xF1 it succeeds with eot equal to bit 0.
DataHeaderTypeAloneDecides ==
    (pc = "decoded" /\ decoder = "DataHeader" /\ Len(wire \o excess) >= 2)
        => LET src == wire \o excess
           IN  /\ (src[2] - (src[2] % 2) # 240)
                      => /\ ~result.ok
                         /\ result.err = "InvalidPduType"
                         /\ result.detail = <<src[2]>>
               /\ (src[2] \in {240, 241})
                      => /\ result.ok
                         /\ result.value.eot = (src[2] = 241)

\* C20 (amended): DataHeader::decode fails with invalid-PDU-type carrying the
\* type byte whenever the type byte with bit 0 cleared is not 0xF0; for type
\* bytes 0xF0 and 0xF1 it fails with invalid-length (expected 1) when the
\* length indicator is 0, and succeeds with eot equal to bit 0 when the length
\* indicator is at least 1 and the length indicator - 1 further header bytes
\* are available.
DataHeaderTypeThenLength ==
    (pc = "decoded" /\ decoder = "DataHeader" /\ Len(wire \o excess) >= 2)
        => LET src == wire \o excess
           IN  /\ (src[2] - (src[2] % 2) # 240)
                      => /\ ~result.ok
                         /\ result.err = "InvalidPduType"
                         /\ result.detail = <<src[2]>>
               /\ (src[2] \in {240, 241} /\ src[1] = 0)
                      => /\ ~result.ok
                         /\ result.err = "InvalidLength"
                         /\ result.detail = <<1, 0>>
               /\ (src[2] \in {240, 241} /\ src[1] >= 1 /\ Len(src) >= 1 + src[1])
                      => /\ result.ok
                         /\ result.value.eot = (src[2] = 241)

\* a data header with type byte 0xF1 and one extra header byte has been decoded
DataHeaderEotWithExtraByteDecoded ==
    /\ pc = "decoded"
    /\ decoder = "DataHeader"
    /\ Len(wire \o excess) >= 3
    /\ wire[1] = 2
    /\ wire[2] = 241
    /\ result.ok
    /\ result.value.eot

\* C21: for every length n, BerWriter::write_length emits the single byte n
\* when n < 128 and otherwise the byte 0x80|k followed by the k-byte big-endian
\* value of n with k minimal (no leading zero octet); BerReader::read_length
\* on that output returns n.
WriteLengthMinimalAndReadBack ==
    (pc \in {"encoded", "decoded"} /\ msg.kind = "BerWriter")
        => /\ (msg.length < 128) => wire = <<msg.length>>
           /\ (msg.length >= 128)
                  => /\ Len(wire) \in 2..5
                     /\ wire[1] = 128 + (Len(wire) - 1)
                     /\ wire[2] # 0
                     /\ \A i \in 2..Len(wire) :
                            wire[i] = (msg.length \div (256 ^ (Len(wire) - i))) % 256
           /\ (pc = "decoded")
                  => /\ result.ok
                     /\ result.value = msg.length
                     /\ result.consumed = Len(wire)

\* a length of three or four octets has been written and read back
LongLengthReadBack ==
    /\ pc = "decoded"
    /\ msg.kind = "BerWriter"
    /\ msg.length >= 65536
    /\ result.ok

\* C22: BerReader::read_length fails with parse-error when the first length
\* byte is 0x80 (indefinite form) and when the first byte has its high bit set
\* with an octet count (low 7 bits) greater than 4; it returns no length in
\* either case.
ReadLengthRejectsIndefiniteAndWide ==
    (/\ pc = "decoded"
     /\ decoder = "read_length"
     /\ Len(wire \o excess) > msg.position
     /\ (wire \o excess)[msg.position + 1] >= 128
     /\ (wire \o excess)[msg.position + 1] % 128 \in {0} \cup (5..127))
        => (~result.ok /\ result.err = "ParseError")

\* a length whose first byte announces five octets has been rejected
FiveOctetLengthRejected ==
    /\ pc = "decoded"
    /\ decoder = "read_length"
    /\ Len(wire) >= msg.position + 6
    /\ wire[msg.position + 1] = 133
    /\ ~result.ok

\* C23: for every result code, user id, requested channel id and optional
\* actual channel id, ChannelJoinConfirm decodes from its own encoding to an
\* equal value; for ChannelJoinConfirm::success(user, channel) the decoded
\* result is successful and the decoded actual channel id is Some(channel).
ChannelJoinConfirmRoundTrip ==
    (pc = "decoded" /\ msg.kind = "ChannelJoinConfirm" /\ excess = <<>>)
        => /\ result.ok
           /\ result.value = msg
           /\ (\E c \in 0..65535 : msg = ChannelJoinConfirm_success(msg.user_id, c))
                  => /\ result.value.result = 0
                     /\ result.value.channel_id = Some(msg.requested_channel_id)

\* a successful confirm with its actual channel id has been encoded and decoded
ChannelJoinSuccessDecoded ==
    /\ pc = "decoded"
    /\ msg.kind = "ChannelJoinConfirm"
    /\ excess = <<>>
    /\ msg = ChannelJoinConfirm_success(msg.user_id, 1003)
    /\ result.ok

\* C24: for every ErectDomainRequest e, encoding e, wrapping the bytes with
\* DataPdu::new and encoding, wrapping those with TpktPacket::new and encoding,
\* then running TpktPacket::decode, DataPdu::decode on the TPKT payload and
\* ErectDomainRequest::decode on the X.224 payload yields e's sub_height and
\* sub_interval, each layer's decoded payload being the inner encoding.
LayeredErectDomainRoundTrip ==
    (pc = "decoded" /\ msg.kind = "LayeredErectDomain")
        => /\ result.ok
           /\ result.value.request.sub_height = msg.request.sub_height
           /\ result.value.request.sub_interval = msg.request.sub_interval
           /\ result.value.x224_payload = ErectDomainRequest_encode(msg.request)
           /\ result.value.tpkt_payload
                  = DataPdu_encode(DataPdu_new(ErectDomainRequest_encode(msg.request)))

\* C29: for every input that DataPdu::decode accepts, including headers whose
\* length indicator is greater than 1 and whose extra header bytes are
\* discarded, the decoded value d satisfies len(encode(d)) = size(d) and
\* decode(encode(d)) = d.
DecodedDataPduReencodes ==
    (pc = "decoded" /\ decoder = "DataPdu" /\ result.ok)
        => /\ Len(DataPdu_encode(result.value)) = DataPdu_size(result.value)
           /\ DataPdu_decode(DataPdu_encode(result.value)).ok
           /\ DataPdu_decode(DataPdu_encode(result.value)).value = result.value

\* the pixel data bytes of all rectangles together
RECURSIVE PixelBytes(_)
PixelBytes(rs) ==
    IF rs = <<>> THEN 0 ELSE Len(Head(rs).bitmap_data) + PixelBytes(Tail(rs))

\* C25: for every BitmapUpdate built by BitmapUpdate::new from rectangles built
\* by BitmapData::new, size() = 2 + the sum over the rectangles of (18 + length
\* of the rectangle's pixel data), and this is the number of bytes encode
\* writes.
BitmapUpdateSizeEqualsEncodedLength ==
    (pc \in {"built", "encoded"} /\ msg.kind = "BitmapUpdate")
        => /\ PduSize(msg) = 2 + 18 * Len(msg.rectangles) + PixelBytes(msg.rectangles)
           /\ PduSize(msg) = Len(PduEncode(msg))
           /\ (pc = "encoded") => Len(wire) = PduSize(msg)

\* an update of two rectangles of 64 data bytes has been encoded into 166 bytes
TwoRectanglesOf64Encoded ==
    /\ pc = "encoded"
    /\ msg.kind = "BitmapUpdate"
    /\ Len(msg.rectangles) = 2
    /\ \A i \in 1..2 : Len(msg.rectangles[i].bitmap_data) = 64
    /\ Len(wire) = 166

\* C30: for all 16-bit x, y, width and height, BitmapData::uncompressed(x, y,
\* width, height, bpp, data) yields dest_left = x, dest_top = y, dest_right =
\* x + width - 1 and dest_bottom = y + height - 1 without arithmetic overflow
\* or underflow (width = 0, height = 0 and sums above 65535 included).
UncompressedCoordinates ==
    (pc = "decoded" /\ msg.kind = "BitmapDataCall")
        => /\ result.ok
           /\ result.value.dest_left = msg.x
           /\ result.value.dest_top = msg.y
           /\ result.value.dest_right = msg.x + msg.width - 1
           /\ result.value.dest_bottom = msg.y + msg.height - 1

\* C26: a successful CapabilitySet::decode of a typed capability (General,
\* Bitmap, Order, Input) consumes exactly the number of bytes declared in the
\* header's length field, so that a capability set following it in the same
\* input is decoded starting at its own first byte.
TypedCapabilityConsumesDeclaredLength ==
    (/\ pc = "decoded"
     /\ msg.kind = "RawCapability"
     /\ msg.type_val \in TypedCapabilityTypes
     /\ msg.length >= 4
     /\ result.ok)
        => result.consumed = msg.length

\* C27: CapabilitySet::decode given a header whose length field is less than 4
\* returns an error; it never wraps the body length around, never panics and
\* never reads or allocates a body of wrapped-around size.
ShortCapabilityLengthIsAnError ==
    (/\ pc = "decoded"
     /\ msg.kind = "RawCapability"
     /\ msg.type_val \in CapabilitySetTypes
     /\ msg.length < 4)
        => (~result.ok /\ result.err # "Panic")

\* C28: for every 16-bit type value t (values outside the CapabilitySetType
\* enumeration included) and every body d, encoding CapabilitySet::Unknown(t, d)
\* writes t as the type field, 4 + len(d) as the length field, then d unchanged.
UnknownCapabilityEncodesItsType ==
    (pc = "encoded" /\ msg.kind = "CapabilitySet" /\ msg.variant = "Unknown")
        => /\ Len(wire) = 4 + Len(msg.data)
           /\ wire[1] = msg.type_val % 256
           /\ wire[2] = msg.type_val \div 256
           /\ wire[3] = (4 + Len(msg.data)) % 256
           /\ wire[4] = (4 + Len(msg.data)) \div 256
           /\ SubSeq(wire, 5, Len(wire)) = msg.data

====
